---- MODULE Spec2Model ----
(***************************************************************************)
(* A model of the LIFELINE AI triage backend (src/backend/app): the        *)
(* fallback-chained classification, severity scoring, instruction          *)
(* selection and hospital search, and the endpoints that compose them.     *)
(*                                                                         *)
(* Representation.                                                         *)
(*  - Python floats in [0,1] (confidence, severity score) are fixed-point  *)
(*    integers with Unit = 1.0, so 0.05 is 500 and 0.79 is 7900; the       *)
(*    product of two of them is divided by Unit.  Every constant of the    *)
(*    code is a multiple of 0.01, so these values are exact.               *)
(*  - A content is a TLA+ string; `in` is substring search and lower() is  *)
(*    computed character by character.                                     *)
(*  - A call either returns a value or raises: a result is a record with   *)
(*    a boolean field exc, and the value fields when exc is FALSE.         *)
(*  - A value decoded from the intelligence service's JSON answer is a     *)
(*    record [t, s, n]: t is "absent" (key missing), "str" (string s),     *)
(*    "num" (number n), "null", "bool", "list" or "other".                 *)
(*  - emergency_classifier.py line 93 (the return of _classify_with_ai)    *)
(*    is indented one column short of its try block; the model reads it    *)
(*    as the last statement of that block, which is where its body places  *)
(*    it.                                                                  *)
(***************************************************************************)
EXTENDS Integers, Sequences, FiniteSets, TLC

VARIABLES
    mode,        \* which entry point this behaviour exercises
    pc,          \* position of the request in its handler
    cfg,         \* the settings object (core/config.py), fixed per process;
                 \* for the trained-model adapter, the adapter object
    req,         \* the request: endpoint, content, location, radius, text
    cls,         \* classification_result
    sev,         \* severity_result
    should_call, \* should_call
    instr,       \* instructions
    hosp,        \* the result of find_nearby: [exc, list]
    resp,        \* the endpoint's outcome: none, a response, or an HTTP error
    svc,         \* what the external services answered and the random module drew
    trace        \* the stages run for this request, in order

vars == <<mode, pc, cfg, req, cls, sev, should_call, instr, hosp, resp, svc, trace>>

----------------------------------------------------------------------------
(* Fixed-point numbers *)

Unit == 10000

Min(a, b) == IF a <= b THEN a ELSE b
Max(a, b) == IF a >= b THEN a ELSE b

\* x * y for two fixed-point numbers (Python float multiplication)
FMulUnit(x, y) == (x * y) \div Unit

----------------------------------------------------------------------------
(* Strings *)

\* str.lower() on one character (ASCII letters)
LowerChar(c) ==
    CASE c = "A" -> "a" [] c = "B" -> "b" [] c = "C" -> "c" [] c = "D" -> "d"
      [] c = "E" -> "e" [] c = "F" -> "f" [] c = "G" -> "g" [] c = "H" -> "h"
      [] c = "I" -> "i" [] c = "J" -> "j" [] c = "K" -> "k" [] c = "L" -> "l"
      [] c = "M" -> "m" [] c = "N" -> "n" [] c = "O" -> "o" [] c = "P" -> "p"
      [] c = "Q" -> "q" [] c = "R" -> "r" [] c = "S" -> "s" [] c = "T" -> "t"
      [] c = "U" -> "u" [] c = "V" -> "v" [] c = "W" -> "w" [] c = "X" -> "x"
      [] c = "Y" -> "y" [] c = "Z" -> "z"
      [] OTHER -> c

RECURSIVE Lower(_)
\* str.lower()
Lower(s) ==
    IF Len(s) = 0 THEN ""
    ELSE LowerChar(SubSeq(s, 1, 1)) \o Lower(SubSeq(s, 2, Len(s)))

\* `kw in s` for Python strings: kw occurs as a substring of s
Contains(kw, s) ==
    \E i \in 1..(Len(s) - Len(kw) + 1) : SubSeq(s, i, i + Len(kw) - 1) = kw

\* sum(1 for keyword in keyword_list if keyword in content_lower)
RECURSIVE CountKeywords(_, _)
CountKeywords(keyword_list, content_lower) ==
    IF Len(keyword_list) = 0 THEN 0
    ELSE (IF Contains(keyword_list[1], content_lower) THEN 1 ELSE 0)
         + CountKeywords(Tail(keyword_list), content_lower)

\* x in [ ... ] for a Python list
InList(x, list) == \E i \in 1..Len(list) : list[i] = x

----------------------------------------------------------------------------
(* JSON values of an intelligence-service answer *)

JAbsent == [t |-> "absent", s |-> "", n |-> 0]
JStr(s) == [t |-> "str", s |-> s, n |-> 0]
JNum(n) == [t |-> "num", s |-> "", n |-> n]
JOther == [t |-> "other", s |-> "", n |-> 0]
JFalse == [t |-> "bool", s |-> "", n |-> 0]
JEmptyList == [t |-> "list", s |-> "", n |-> 0]
JNull == [t |-> "null", s |-> "", n |-> 0]

\* result.get(key, default): the default replaces only a missing key
JGet(v, default) == IF v.t = "absent" THEN default ELSE v

\* The numeric strings float() accepts, among the strings the model uses
NumericStrings == {"0.9"}
ParseFloat(s) == CASE s = "0.9" -> 9000

\* float(v): a number is itself, a numeric string is parsed, anything else
\* raises (ValueError for a non-numeric string, TypeError for null or a list)
FloatRaises(v) ==
    \/ v.t \notin {"num", "str"}
    \/ v.t = "str" /\ v.s \notin NumericStrings
FloatOf(v) == IF v.t = "num" THEN v.n ELSE ParseFloat(v.s)

----------------------------------------------------------------------------
(* app/models/schemas.py *)

\* class EmergencyType
EmergencyType ==
    {"medical", "trauma", "cardiac", "respiratory", "burn", "poisoning",
     "fracture", "bleeding", "unknown"}

\* class SeverityLevel
SeverityLevel == {"critical", "high", "moderate", "low"}

Raised == [exc |-> TRUE]

----------------------------------------------------------------------------
(* The intelligence service (OpenAI chat completion + json.loads) *)

\* A stage that did not call the service
NoCall == [kind |-> "nocall"]
\* client.chat.completions.create raised: transport error, timeout, HTTP error
SvcException == [kind |-> "exception"]
\* the answer's content is not JSON: json.loads raises
SvcMalformed == [kind |-> "malformed"]

\* The stage's try block ends in its except clause before reading any key
SvcFails(ans) == ans.kind \in {"exception", "malformed"}

----------------------------------------------------------------------------
(* app/services/ai/emergency_classifier.py *)

\* keywords, in the order the dict literal declares them
KeywordOrder ==
    <<"cardiac", "respiratory", "bleeding", "fracture", "burn", "poisoning",
      "trauma", "medical">>

Keywords(emergency_type) ==
    CASE emergency_type = "cardiac" ->
           <<"chest pain", "heart", "cardiac", "heart attack", "cardiac arrest",
             "palpitations">>
      [] emergency_type = "respiratory" ->
           <<"breathing", "choke", "asthma", "shortness of breath",
             "can't breathe", "suffocating">>
      [] emergency_type = "bleeding" ->
           <<"bleeding", "blood", "cut", "wound", "hemorrhage", "laceration">>
      [] emergency_type = "fracture" ->
           <<"broken", "fracture", "bone", "dislocated", "sprain">>
      [] emergency_type = "burn" ->
           <<"burn", "scald", "fire", "hot", "thermal">>
      [] emergency_type = "poisoning" ->
           <<"poison", "toxic", "overdose", "ingested", "chemical">>
      [] emergency_type = "trauma" ->
           <<"injury", "hurt", "accident", "fall", "hit", "struck">>
      [] emergency_type = "medical" ->
           <<"fever", "pain", "sick", "ill", "nausea", "dizzy", "unconscious">>

\* scores[emergency_type], 0 standing for a key the dict does not hold
KeywordScore(i, content_lower) ==
    CountKeywords(Keywords(KeywordOrder[i]), content_lower)

\* A plausible slip: among the keys of the highest score, the last one in
\* insertion order is taken
BestIndex_LastOfTies(content_lower) ==
    LET sc == [i \in 1..Len(KeywordOrder) |-> KeywordScore(i, content_lower)]
        best == {i \in 1..Len(KeywordOrder) :
                    /\ sc[i] > 0
                    /\ \A j \in 1..Len(KeywordOrder) : sc[j] <= sc[i]
                    /\ \A j \in (i + 1)..Len(KeywordOrder) : sc[j] < sc[i]}
    IN  IF best = {} THEN 0 ELSE CHOOSE i \in best : TRUE

\* max(scores, key=scores.get): the first key, in insertion order, whose
\* score is the highest; 0 when scores is empty
BestIndex(content_lower) ==
    LET sc == [i \in 1..Len(KeywordOrder) |-> KeywordScore(i, content_lower)]
        best == {i \in 1..Len(KeywordOrder) :
                    /\ sc[i] > 0
                    /\ \A j \in 1..Len(KeywordOrder) : sc[j] <= sc[i]
                    /\ \A j \in 1..(i - 1) : sc[j] < sc[i]}
    IN  IF best = {} THEN 0 ELSE CHOOSE i \in best : TRUE

\* A plausible slip: the cap of the confidence left out
ClassifyWithRules_NoCap(content) ==
    LET content_lower == Lower(content)
        b == BestIndex(content_lower)
    IN  IF b > 0
        THEN [exc |-> FALSE,
              type |-> KeywordOrder[b],
              confidence |-> 5000 + KeywordScore(b, content_lower) * 1000,
              reasoning |-> "Rule-based classification"]
        ELSE [exc |-> FALSE,
              type |-> "unknown",
              confidence |-> 3000,
              reasoning |-> "Rule-based classification"]

\* A plausible slip: the keywords are looked up in the content as typed
ClassifyWithRules_CaseSensitive(content) ==
    LET b == BestIndex(content)
    IN  IF b > 0
        THEN [exc |-> FALSE,
              type |-> KeywordOrder[b],
              confidence |-> Min(9000, 5000 + KeywordScore(b, content) * 1000),
              reasoning |-> "Rule-based classification"]
        ELSE [exc |-> FALSE,
              type |-> "unknown",
              confidence |-> 3000,
              reasoning |-> "Rule-based classification"]

\* EmergencyClassifier._classify_with_rules
ClassifyWithRules(content) ==
    LET content_lower == Lower(content)
        b == BestIndex(content_lower)
    IN  IF b > 0
        THEN [exc |-> FALSE,
              type |-> KeywordOrder[b],
              confidence |-> Min(9000, 5000 + KeywordScore(b, content_lower) * 1000),
              reasoning |-> "Rule-based classification"]
        ELSE [exc |-> FALSE,
              type |-> "unknown",
              confidence |-> 3000,
              reasoning |-> "Rule-based classification"]

\* The statements of _classify_with_ai's try block after json.loads raise:
\* .lower() on a type that is no string, float() on a bad confidence
AiClassifyRaises(ans) ==
    \/ SvcFails(ans)
    \/ JGet(ans.type, JStr("unknown")).t # "str"
    \/ FloatRaises(JGet(ans.confidence, JNum(7000)))

\* A plausible slip: the except clause answers the default category instead
\* of running the rules
ClassifyWithAi_DefaultOnFailure(content, ans) ==
    IF AiClassifyRaises(ans)
    THEN [exc |-> FALSE, type |-> "unknown", confidence |-> 3000,
          reasoning |-> "Rule-based classification"]
    ELSE [exc |-> FALSE,
          type |-> JGet(ans.type, JStr("unknown")).s,
          severity |-> JGet(ans.severity, JStr("unknown")),
          instructions |-> JGet(ans.instructions, JEmptyList),
          call_emergency |-> JGet(ans.call_emergency, JFalse),
          confidence |-> FloatOf(JGet(ans.confidence, JNum(7000)))]

\* EmergencyClassifier._classify_with_ai.  The normalised emergency_type of
\* lines 89-91 is computed and never read: the dict returned takes "type"
\* from the answer again.
ClassifyWithAi(content, ans) ==
    IF AiClassifyRaises(ans)
    THEN ClassifyWithRules(content)
    ELSE [exc |-> FALSE,
          type |-> JGet(ans.type, JStr("unknown")).s,
          severity |-> JGet(ans.severity, JStr("unknown")),
          instructions |-> JGet(ans.instructions, JEmptyList),
          call_emergency |-> JGet(ans.call_emergency, JFalse),
          confidence |-> FloatOf(JGet(ans.confidence, JNum(7000)))]

\* custom_classifier.py, CustomEmergencyClassifier.is_available: load_models
\* loaded both models, which it does when both files are on disk.  No
\* module of app imports CustomEmergencyClassifier.
CustomAvailable(models_on_disk) == models_on_disk

\* `self.ai_enabled and self.openai_key`
AiConfigured(settings) == settings.AI_ENABLED /\ settings.OPENAI_API_KEY # ""

\* EmergencyClassifier.classify.  Neither branch raises, so the except
\* clause of classify is never entered.
Classify(settings, content, ans) ==
    LET r == IF AiConfigured(settings)
             THEN ClassifyWithAi(content, ans)
             ELSE ClassifyWithRules(content)
    IN  IF r.exc THEN ClassifyWithRules(content) ELSE r

\* The stages classify runs, in order
ClassifyStages(settings, ans) ==
    IF AiConfigured(settings)
    THEN IF AiClassifyRaises(ans) THEN <<"classify:ai", "classify:rules">>
         ELSE <<"classify:ai">>
    ELSE <<"classify:rules">>

----------------------------------------------------------------------------
(* app/services/ai/custom_classifier.py                                    *)
(*                                                                         *)
(* The adapter object is the record of its three fields, TRUE standing for *)
(* a loaded object and FALSE for None.  A file on disk is "missing", "ok"  *)
(* or "corrupt" (joblib.load or json.load raises on it).                   *)

\* load_models: a raise inside the try block keeps the fields assigned
\* before it, and the except clause swallows it
LoadModels(self, files) ==
    IF files.cat = "missing" \/ files.sev = "missing" THEN self
    ELSE IF files.cat = "corrupt" THEN self
    ELSE IF files.sev = "corrupt" THEN [self EXCEPT !.category_model = TRUE]
    ELSE [category_model |-> TRUE,
          severity_model |-> TRUE,
          config |-> IF files.config = "ok" THEN TRUE ELSE self.config]

\* A plausible slip: one loaded model is taken to be enough
IsAvailable_EitherModel(self) == self.category_model \/ self.severity_model

\* is_available
IsAvailable(self) == self.category_model /\ self.severity_model

\* classify: prediction is what the two models answer for the text.  Past
\* the availability test, a model that is None raises at predict.
CustomClassify(self, text, prediction) ==
    IF ~IsAvailable(self)
    THEN [exc |-> TRUE, error |-> "ValueError"]
    ELSE IF ~self.category_model \/ ~self.severity_model
    THEN [exc |-> TRUE, error |-> "AttributeError"]
    ELSE IF prediction.raises
    THEN [exc |-> TRUE, error |-> "Exception"]
    ELSE [exc |-> FALSE,
          type |-> prediction.category,
          confidence |-> (prediction.cat_confidence + prediction.sev_confidence) \div 2,
          severity |-> prediction.severity,
          severity_confidence |-> prediction.sev_confidence,
          source |-> "custom_model"]

----------------------------------------------------------------------------
(* app/services/ai/severity_scorer.py *)

critical_keywords ==
    <<"unconscious", "not breathing", "cardiac arrest", "severe bleeding",
      "can't breathe", "choking", "severe pain", "chest pain", "heart attack">>

high_keywords ==
    <<"broken", "fracture", "burn", "poison", "severe", "urgent", "emergency">>

moderate_keywords ==
    <<"pain", "hurt", "injury", "bleeding", "cut", "wound">>

\* A plausible slip: the caps of the high and moderate tiers left out
RulesTier_NoCaps(emergency_type, content) ==
    LET content_lower == Lower(content)
        critical_count == CountKeywords(critical_keywords, content_lower)
        high_count == CountKeywords(high_keywords, content_lower)
        moderate_count == CountKeywords(moderate_keywords, content_lower)
    IN  IF critical_count > 0 \/ emergency_type \in {"cardiac", "respiratory"}
        THEN [severity |-> "critical", score |-> 8000 + critical_count * 500]
        ELSE IF high_count > 0 \/ emergency_type \in {"bleeding", "fracture", "burn"}
        THEN [severity |-> "high", score |-> 6000 + high_count * 500]
        ELSE IF moderate_count > 0
        THEN [severity |-> "moderate", score |-> 4000 + moderate_count * 500]
        ELSE [severity |-> "low", score |-> 3000]

\* _score_with_rules, lines 118-152: the tier and its score before the
\* confidence adjustment
RulesTier(emergency_type, content) ==
    LET content_lower == Lower(content)
        critical_count == CountKeywords(critical_keywords, content_lower)
        high_count == CountKeywords(high_keywords, content_lower)
        moderate_count == CountKeywords(moderate_keywords, content_lower)
    IN  IF critical_count > 0 \/ emergency_type \in {"cardiac", "respiratory"}
        THEN [severity |-> "critical",
              score |-> Min(10000, 8000 + critical_count * 500)]
        ELSE IF high_count > 0 \/ emergency_type \in {"bleeding", "fracture", "burn"}
        THEN [severity |-> "high",
              score |-> Min(7900, 6000 + high_count * 500)]
        ELSE IF moderate_count > 0
        THEN [severity |-> "moderate",
              score |-> Min(5900, 4000 + moderate_count * 500)]
        ELSE [severity |-> "low", score |-> 3000]

\* SeverityScorer._score_with_rules
ScoreWithRules(emergency_type, content, confidence) ==
    LET tier == RulesTier(emergency_type, content)
    IN  [exc |-> FALSE,
         severity |-> tier.severity,
         score |-> FMulUnit(tier.score, confidence),
         reasoning |-> "Rule-based severity assessment"]

\* Lines 92-99: the level of a score
LevelOfScore(score) ==
    IF score >= 8000 THEN "critical"
    ELSE IF score >= 6000 THEN "high"
    ELSE IF score >= 4000 THEN "moderate"
    ELSE "low"

\* The statements of _score_with_ai's try block after json.loads raise:
\* .lower() on a severity that is no string, float() on a bad score
AiScoreRaises(ans) ==
    \/ SvcFails(ans)
    \/ JGet(ans.severity, JStr("moderate")).t # "str"
    \/ FloatRaises(JGet(ans.score, JNum(5000)))

\* SeverityScorer._score_with_ai: the score is mapped to a level only when
\* the answer's level is not one of SeverityLevel; a valid level is returned
\* beside whatever score the answer carries
ScoreWithAi(emergency_type, content, ans) ==
    IF AiScoreRaises(ans)
    THEN ScoreWithRules(emergency_type, content, 7000)
    ELSE LET severity == Lower(JGet(ans.severity, JStr("moderate")).s)
             score == FloatOf(JGet(ans.score, JNum(5000)))
         IN  [exc |-> FALSE,
              severity |-> IF severity \notin SeverityLevel
                           THEN LevelOfScore(score) ELSE severity,
              score |-> score,
              reasoning |-> JGet(ans.reasoning, JStr(""))]

\* SeverityScorer.score.  Neither branch raises, so the except clause of
\* score is never entered.
Score(settings, emergency_type, content, classification_confidence, ans) ==
    LET r == IF AiConfigured(settings)
             THEN ScoreWithAi(emergency_type, content, ans)
             ELSE ScoreWithRules(emergency_type, content, classification_confidence)
    IN  IF r.exc
        THEN ScoreWithRules(emergency_type, content, classification_confidence)
        ELSE r

\* The stages score runs, in order
ScoreStages(settings, ans) ==
    IF AiConfigured(settings)
    THEN IF AiScoreRaises(ans) THEN <<"score:ai", "score:rules">>
         ELSE <<"score:ai">>
    ELSE <<"score:rules">>

----------------------------------------------------------------------------
(* app/services/ai/first_aid_generator.py *)

\* The keys of the templates dict
TemplateKeys ==
    {"cuts-wounds", "burns", "choking", "cpr", "sprains", "nosebleed", "allergic-reaction", "fainting"}

\* templates[emergency_type]
Templates(emergency_type) ==
    CASE emergency_type = "cuts-wounds" ->
        <<
          [title |-> "Stop the Bleeding",
           description |-> "Apply direct pressure to the wound with a clean cloth or bandage. Press firmly and continuously.",
           duration |-> 300],
          [title |-> "Clean the Wound",
           description |-> "Once bleeding stops, gently clean the wound with clean water. Remove any visible debris.",
           duration |-> 120],
          [title |-> "Apply Bandage",
           description |-> "Cover the wound with a sterile bandage or clean cloth. Secure with tape or wrap.",
           duration |-> 60],
          [title |-> "Monitor for Infection",
           description |-> "Watch for signs of infection: increased pain, redness, swelling, or pus. Seek medical attention if needed.",
           duration |-> 0] >>
      [] emergency_type = "burns" ->
        <<
          [title |-> "Cool the Burn",
           description |-> "Hold the burned area under cool (not cold) running water for 10-20 minutes.",
           duration |-> 1200],
          [title |-> "Remove Tight Items",
           description |-> "Remove rings, bracelets, or tight clothing from the burned area before it swells.",
           duration |-> 30],
          [title |-> "Cover the Burn",
           description |-> "Cover with a sterile, non-adhesive bandage or clean cloth. Do not use ice or butter.",
           duration |-> 60],
          [title |-> "Seek Medical Attention",
           description |-> "For severe burns or burns larger than 3 inches, call emergency services immediately.",
           duration |-> 0] >>
      [] emergency_type = "choking" ->
        <<
          [title |-> "Encourage Coughing",
           description |-> "If the person can cough, encourage them to keep coughing to try to clear the blockage.",
           duration |-> 30],
          [title |-> "Back Blows",
           description |-> "Stand behind the person, lean them forward, and give 5 sharp back blows between the shoulder blades.",
           duration |-> 30],
          [title |-> "Abdominal Thrusts",
           description |-> "Stand behind the person, place hands above navel, and give 5 quick upward thrusts.",
           duration |-> 30],
          [title |-> "Call Emergency Services",
           description |-> "If the blockage doesn't clear, call 911 immediately and continue alternating back blows and thrusts.",
           duration |-> 0] >>
      [] emergency_type = "cpr" ->
        <<
          [title |-> "Check Responsiveness",
           description |-> "Tap the person's shoulders and shout 'Are you okay?' Check for normal breathing.",
           duration |-> 10],
          [title |-> "Call for Help",
           description |-> "Call 911 immediately. Ask someone to find an AED if available.",
           duration |-> 0],
          [title |-> "Position Hands",
           description |-> "Place heel of one hand on center of chest between nipples. Place other hand on top, interlacing fingers.",
           duration |-> 15],
          [title |-> "Start Compressions",
           description |-> "Push hard and fast at least 2 inches deep at 100-120 compressions per minute. Let chest recoil completely.",
           duration |-> 120] >>
      [] emergency_type = "sprains" ->
        <<
          [title |-> "Rest the Injury",
           description |-> "Stop activity and rest the injured area. Avoid putting weight on it.",
           duration |-> 0],
          [title |-> "Apply Ice",
           description |-> "Apply ice wrapped in a cloth for 15-20 minutes every 2-3 hours for the first 48 hours.",
           duration |-> 1200],
          [title |-> "Compress the Area",
           description |-> "Wrap with an elastic bandage, not too tight. You should be able to slip a finger under it.",
           duration |-> 120],
          [title |-> "Elevate if Possible",
           description |-> "Raise the injured area above heart level when resting to reduce swelling.",
           duration |-> 0] >>
      [] emergency_type = "nosebleed" ->
        <<
          [title |-> "Sit and Lean Forward",
           description |-> "Sit upright and lean slightly forward to prevent blood from running down the throat.",
           duration |-> 0],
          [title |-> "Pinch the Nose",
           description |-> "Pinch the soft part of the nose (not the bridge) firmly for 10-15 minutes continuously.",
           duration |-> 900],
          [title |-> "Apply Cold Compress",
           description |-> "Apply a cold compress or ice pack to the bridge of the nose while pinching.",
           duration |-> 900],
          [title |-> "Seek Help if Needed",
           description |-> "If bleeding doesn't stop after 20 minutes or if caused by injury, seek medical attention.",
           duration |-> 0] >>
      [] emergency_type = "allergic-reaction" ->
        <<
          [title |-> "Remove the Trigger",
           description |-> "If possible, remove or avoid the allergen that caused the reaction.",
           duration |-> 30],
          [title |-> "Use Antihistamine",
           description |-> "Give an antihistamine like Benadryl if available and the person is conscious.",
           duration |-> 60],
          [title |-> "Watch for Severe Symptoms",
           description |-> "Monitor for difficulty breathing, swelling of face/throat, or rapid pulse.",
           duration |-> 0],
          [title |-> "Call Emergency Services",
           description |-> "If symptoms are severe or person has an EpiPen, use it and call 911 immediately.",
           duration |-> 0] >>
      [] emergency_type = "fainting" ->
        <<
          [title |-> "Lay Person Down",
           description |-> "Help the person lie down on their back. If not possible, help them sit with head between knees.",
           duration |-> 30],
          [title |-> "Elevate Legs",
           description |-> "Raise the person's legs 8-12 inches above heart level to improve blood flow to the brain.",
           duration |-> 0],
          [title |-> "Loosen Tight Clothing",
           description |-> "Loosen belts, collars, or any tight clothing around the neck and waist.",
           duration |-> 30],
          [title |-> "Monitor and Reassure",
           description |-> "Stay with the person, check breathing, and provide reassurance when they regain consciousness.",
           duration |-> 0] >>

\* The default of templates.get(emergency_type, [...])
DefaultTemplate ==
    <<
      [title |-> "Assess the Situation",
       description |-> "Carefully assess the situation and ensure your own safety first.",
       duration |-> 30],
      [title |-> "Call for Help",
       description |-> "Call 911 or your local emergency number if the situation is serious.",
       duration |-> 0],
      [title |-> "Provide Basic Care",
       description |-> "Provide basic first aid care while waiting for professional help to arrive.",
       duration |-> 0],
      [title |-> "Monitor the Person",
       description |-> "Continue monitoring the person's condition and stay with them until help arrives.",
       duration |-> 0] >>

\* uuid.uuid4(): the k-th identifier drawn during one call.  uuid4 draws 122
\* random bits; two draws are taken to differ.
Uuid4(k) == k

\* A plausible slip: the category burn is served the template of burns
GenerateWithTemplates_BurnTemplate(emergency_type, severity) ==
    LET instructions == IF emergency_type \in TemplateKeys
                        THEN Templates(emergency_type)
                        ELSE IF emergency_type = "burn"
                        THEN Templates("burns")
                        ELSE DefaultTemplate
    IN  [exc |-> FALSE,
         list |-> [idx \in 1..Len(instructions) |->
                     [id |-> Uuid4(idx),
                      step |-> JNum(idx),
                      title |-> JStr(instructions[idx].title),
                      description |-> JStr(instructions[idx].description),
                      duration |-> JNum(instructions[idx].duration)]]]

\* FirstAidGenerator._generate_with_templates (severity is not read)
GenerateWithTemplates(emergency_type, severity) ==
    LET instructions == IF emergency_type \in TemplateKeys
                        THEN Templates(emergency_type)
                        ELSE DefaultTemplate
    IN  [exc |-> FALSE,
         list |-> [idx \in 1..Len(instructions) |->
                     [id |-> Uuid4(idx),
                      step |-> JNum(idx),
                      title |-> JStr(instructions[idx].title),
                      description |-> JStr(instructions[idx].description),
                      duration |-> JNum(instructions[idx].duration)]]]

\* The statements of _generate_with_ai's try block after json.loads raise:
\* the loop over an "instructions" value that is no list, .get on an element
\* that is no object
AiGenerateRaises(ans) ==
    \/ SvcFails(ans)
    \/ JGet(ans.instructions, JEmptyList).t # "list"
    \/ \E i \in 1..Len(ans.items) : ~ans.items[i].isdict

\* FirstAidGenerator._generate_with_ai: each element keeps the step the
\* answer gave it, idx standing in only for a missing "step" key
GenerateWithAi(emergency_type, severity, ans) ==
    IF AiGenerateRaises(ans)
    THEN GenerateWithTemplates(emergency_type, severity)
    ELSE [exc |-> FALSE,
          list |-> [idx \in 1..Len(ans.items) |->
                      [id |-> Uuid4(idx),
                       step |-> JGet(ans.items[idx].step, JNum(idx)),
                       title |-> JGet(ans.items[idx].title,
                                     JStr("Step " \o ToString(idx))),
                       description |-> JGet(ans.items[idx].description, JStr("")),
                       duration |-> JGet(ans.items[idx].duration, JNull)]]]

\* FirstAidGenerator.generate_instructions.  Neither branch raises, so the
\* except clause is never entered.
GenerateInstructions(settings, emergency_type, severity, ans) ==
    LET r == IF AiConfigured(settings)
             THEN GenerateWithAi(emergency_type, severity, ans)
             ELSE GenerateWithTemplates(emergency_type, severity)
    IN  IF r.exc THEN GenerateWithTemplates(emergency_type, severity) ELSE r

\* The stages generate_instructions runs, in order
GenerateStages(settings, ans) ==
    IF AiConfigured(settings)
    THEN IF AiGenerateRaises(ans) THEN <<"generate:ai", "generate:templates">>
         ELSE <<"generate:ai">>
    ELSE <<"generate:templates">>

----------------------------------------------------------------------------
(* Coordinates and the haversine distance                                  *)
(*                                                                         *)
(* A latitude or longitude is an integer number of millidegrees, a         *)
(* distance an integer number of metres.  _calculate_distance is computed  *)
(* in the order the code computes it, with angles in microradians and the  *)
(* values of sin, cos and asin in millionths, every product split so that  *)
(* it stays below 2^31.  The rounding of the square root gives the result *)
(* a resolution of some hundreds of metres below one kilometre and an error *)
(* of some tens of metres beyond; the distance of a point to itself is 0.  *)

\* F(e), F(d, e): the arguments are evaluated once, like the operands of a
\* Python expression, however often F reads them
Apply(F(_), e) == CHOOSE r \in {F(x) : x \in {e}} : TRUE
Apply2(F(_, _), d, e) == CHOOSE r \in {F(x, y) : x \in {d}, y \in {e}} : TRUE

Abs(x) == Apply(LAMBDA v : IF v < 0 THEN -v ELSE v, x)

\* x * y / 10^6 for 0 <= x, y < 10^7
MulQ(x, y) ==
    Apply2(LAMBDA a, b :
               (a \div 1000) * (b \div 1000)
               + ((a \div 1000) * (b % 1000) + (a % 1000) * (b \div 1000)) \div 1000
               + ((a % 1000) * (b % 1000)) \div 1000000,
           x, y)

\* x * 10^6 / y for 0 <= x, 0 < y <= 10^6, by long division
DivQ(x, y) ==
    Apply2(LAMBDA a, b :
               (a \div b) * 1000000
               + (((a % b) * 1000) \div b) * 1000
               + ((((a % b) * 1000) % b) * 1000) \div b,
           x, y)

\* x * m / 1000 for 0 <= x < 10^7, 0 <= m < 10^5
MulMilli(x, m) ==
    Apply2(LAMBDA a, b : (a \div 1000) * b + ((a % 1000) * b) \div 1000, x, m)

\* math.radians: millidegrees to microradians (pi / 180 = 0.017453293)
Radians(mdeg) ==
    Apply(LAMBDA d : IF d < 0 THEN -((-d) * 17 + MulQ(-d, 453293))
                     ELSE d * 17 + MulQ(d, 453293),
          mdeg)

HalfPi == 1570796
Pi == 3141593

\* sin on [0, pi/2], in millionths: the Taylor series through x^11
SinQuadrant(x) ==
    Apply2(LAMBDA v, x2 :
               LET t5 == 1000000 - x2 \div 110
                   t4 == 1000000 - MulQ(x2, t5) \div 72
                   t3 == 1000000 - MulQ(x2, t4) \div 42
                   t2 == 1000000 - MulQ(x2, t3) \div 20
                   t1 == 1000000 - MulQ(x2, t2) \div 6
               IN  MulQ(v, t1),
           x, MulQ(x, x))

\* The angle of [0, pi/2] with the sine of a, up to sign, for 0 <= a < 2 pi
Reduce(a) ==
    Apply(LAMBDA v : IF v > Pi
                     THEN (IF v - Pi > HalfPi THEN 2 * Pi - v ELSE v - Pi)
                     ELSE (IF v > HalfPi THEN Pi - v ELSE v),
          a)

\* math.sin, for an angle in microradians
Sin(x) ==
    Apply2(LAMBDA v, a : IF (v < 0) # (a > Pi) THEN -SinQuadrant(Reduce(a))
                         ELSE SinQuadrant(Reduce(a)),
           x, Abs(x) % (2 * Pi))

\* math.cos
Cos(x) == Sin(HalfPi - Abs(x))

RECURSIVE IsqrtFrom(_, _)
\* Newton's iteration for the integer square root of n, from x above it
IsqrtFrom(n, x) ==
    Apply(LAMBDA y : IF y >= x THEN x ELSE IsqrtFrom(n, y),
          (x + n \div x) \div 2)

\* The integer square root of 0 <= n <= 2 * 10^9
Isqrt(n) == IF n = 0 THEN 0 ELSE IsqrtFrom(n, 46340)

\* math.sqrt of a (a in billionths), in millionths
SqrtQ(a) ==
    Apply2(LAMBDA v, r :
               Apply(LAMBDA r1000 :
                         (r1000 \div 31623) * 1000
                         + ((r1000 % 31623) * 1000) \div 31623,
                     IF r = 0 THEN 0
                     ELSE r * 1000 + ((v - r * r) * 1000) \div (2 * r + 1)),
           a, Isqrt(a))

RECURSIVE AsinNewton(_, _, _)
\* Newton's iteration for sin(t) = z, 0 <= z <= 0.7072, at most n rounds
AsinNewton(z, t, n) ==
    IF n = 0 THEN t
    ELSE Apply2(LAMBDA u, s :
                    IF s = z THEN u
                    ELSE Apply(LAMBDA c : AsinNewton(z,
                                                     IF s > z THEN u - DivQ(s - z, c)
                                                     ELSE u + DivQ(z - s, c),
                                                     n - 1),
                               Cos(u)),
                t, Sin(t))

\* math.asin on [0, 1], in microradians
Asin(z) ==
    Apply(LAMBDA zc :
              IF zc <= 707200
              THEN Apply(LAMBDA w : AsinNewton(w, w, 4), zc)
              ELSE Apply(LAMBDA w : HalfPi - AsinNewton(w, w, 4),
                         SqrtQ((1000000 - MulQ(zc, zc)) * 1000)),
          IF z < 1000000 THEN z ELSE 1000000)

\* sin(angle / 2) ** 2 in billionths, for an angle difference in millidegrees
SinHalfSquared(mdeg) ==
    Apply(LAMBDA s : MulMilli(s, s), Abs(Sin(Abs(Radians(mdeg)) \div 2)))

\* cc * sq / 10^9, for cc in millionths and sq in billionths
MulBillionths(cc, sq) ==
    Apply2(LAMBDA a, b : a * (b \div 1000000) + MulQ(a, b % 1000000), cc, sq)

\* R, the Earth radius in kilometres
EarthRadiusKm == 6371

\* A plausible slip: cos(lat1) used for both latitudes
CalculateDistance_OneLatitude(lat1, lon1, lat2, lon2) ==
    LET cc == MulQ(Abs(Cos(Radians(lat1))), Abs(Cos(Radians(lat1))))
        a == SinHalfSquared(lat2 - lat1) + MulBillionths(cc, SinHalfSquared(lon2 - lon1))
        c == 2 * Asin(SqrtQ(Apply(LAMBDA v : IF v < 1000000000 THEN v ELSE 1000000000, a)))
    IN  MulMilli(c, EarthRadiusKm)

\* HospitalFinder._calculate_distance (the same in the three finders), in
\* metres:
\*   a = sin(dlat/2)**2 + cos(lat1) * cos(lat2) * sin(dlon/2)**2
\*   c = 2 * asin(sqrt(a));  distance = R * c
CalculateDistance(lat1, lon1, lat2, lon2) ==
    LET cc == MulQ(Abs(Cos(Radians(lat1))), Abs(Cos(Radians(lat2))))
        a == SinHalfSquared(lat2 - lat1) + MulBillionths(cc, SinHalfSquared(lon2 - lon1))
        c == 2 * Asin(SqrtQ(Apply(LAMBDA v : IF v < 1000000000 THEN v ELSE 1000000000, a)))
    IN  MulMilli(c, EarthRadiusKm)

----------------------------------------------------------------------------
(* The coordinates the model explores *)

\* Request coordinates: New York, and the North Pole, where a positive
\* latitude offset leaves the range LocationData accepts
Locations ==
    {[latitude |-> 40713, longitude |-> -74006],
     [latitude |-> 90000, longitude |-> 0]}

\* Search radii, in kilometres
Radii == {10, 50}

\* hospital_finder.py, _generate_nearby_hospitals: the offsets are drawn
\* from uniform(-0.45, 0.45) whatever the radius
MockMaxOffset == 450

\* max_offset = radius / 111.0, in millidegrees (radius in kilometres)
MaxOffset(radius) == (radius * 1000) \div 111

\* The offsets explored for random.uniform(-max_offset, max_offset), one
\* pair per hospital: both axes at the bound, none, a part of the bound
OffsetPairs(max_offset) ==
    {<<max_offset, max_offset>>, <<0, 0>>,
     <<-(max_offset \div 2), max_offset \div 4>>}

----------------------------------------------------------------------------
(* app/services/location: the three HospitalFinder classes                 *)
(*                                                                         *)
(* A Hospital is modelled by its id, its distance and its location; name,  *)
(* address, phone and specialties are filled in by the code and read by no *)
(* decision.  A draw of the random module is one record [n, offs]: the     *)
(* value of random.randint for the number of hospitals and the pair of     *)
(* random.uniform offsets of each.                                         *)

\* LocationData: latitude ge=-90 le=90, longitude ge=-180 le=180
ValidLocation(lat, lon) ==
    /\ -90000 <= lat /\ lat <= 90000
    /\ -180000 <= lon /\ lon <= 180000

\* list.sort(key=lambda x: x.distance) of the list h.  The sort is stable:
\* the element at place k is the one that k - 1 elements precede in the
\* order of (distance, place in h).
SortedByDistance(h) ==
    [k \in 1..Len(h) |->
        h[CHOOSE i \in 1..Len(h) :
            Cardinality({j \in 1..Len(h) :
                \/ h[j].distance < h[i].distance
                \/ h[j].distance = h[i].distance /\ j < i}) = k - 1]]

\* A plausible slip: the list is returned in the order it was built
SortByDistance_Unsorted(hospitals) == hospitals

\* hospitals.sort(key=lambda x: x.distance)
SortByDistance(hospitals) == Apply(SortedByDistance, hospitals)

\* hospitals[:n]
Take(hospitals, n) ==
    Apply(LAMBDA h : SubSeq(h, 1, Min(Len(h), Max(n, 0))), hospitals)

\* f"{i:03d}" for 1 <= i <= 9
Pad3(i) == "00" \o ToString(i)

RECURSIVE Synthetic(_, _, _, _)
\* The hospitals a synthetic generator appends in the first n rounds of its
\* loop, before sorting
Synthetic(prefix, location, draw, n) ==
    IF n = 0 THEN <<>>
    ELSE Append(Synthetic(prefix, location, draw, n - 1),
                [id |-> prefix \o Pad3(n),
                 latitude |-> location.latitude + draw.offs[n][1],
                 longitude |-> location.longitude + draw.offs[n][2],
                 distance |-> CalculateDistance(
                                 location.latitude, location.longitude,
                                 location.latitude + draw.offs[n][1],
                                 location.longitude + draw.offs[n][2])])

\* Hospital(...), through its LocationData(...), raises a ValidationError
\* for one of the hospitals of the draw
SyntheticRaises(location, draw) ==
    \E i \in 1..draw.n :
        ~ValidLocation(location.latitude + draw.offs[i][1],
                       location.longitude + draw.offs[i][2])

\* hospital_finder.py, HospitalFinder.find_nearby: radius is not read; any
\* exception ends in the empty list
MockFindNearby(location, radius, draw) ==
    IF SyntheticRaises(location, draw)
    THEN [exc |-> FALSE, list |-> <<>>]
    ELSE [exc |-> FALSE,
          list |-> SortByDistance(Synthetic("hosp_", location, draw, draw.n))]

\* hospital_finder_osm.py and hospital_finder_google.py,
\* HospitalFinder._find_with_fallback: the list is sorted and returned whole
FindWithFallback(location, radius, draw) ==
    IF SyntheticRaises(location, draw)
    THEN Raised
    ELSE [exc |-> FALSE,
          list |-> SortByDistance(Synthetic("fallback_", location, draw, draw.n))]

\* _find_with_overpass, lines 80-136: the element yields a hospital.  One
\* without coordinates, without id, or whose LocationData is rejected is
\* skipped by the except clause of the loop.
OsmUsable(e) == e.haspos /\ e.hasid /\ ValidLocation(e.lat, e.lon)

RECURSIVE OsmHospitals(_, _)
\* _find_with_overpass, lines 78-136: the hospitals built from the elements
OsmHospitals(location, elements) ==
    IF Len(elements) = 0 THEN <<>>
    ELSE IF ~OsmUsable(elements[Len(elements)])
    THEN OsmHospitals(location, SubSeq(elements, 1, Len(elements) - 1))
    ELSE Append(OsmHospitals(location, SubSeq(elements, 1, Len(elements) - 1)),
                [id |-> "osm_" \o ToString(elements[Len(elements)].id),
                 latitude |-> elements[Len(elements)].lat,
                 longitude |-> elements[Len(elements)].lon,
                 distance |-> CalculateDistance(
                                 location.latitude, location.longitude,
                                 elements[Len(elements)].lat,
                                 elements[Len(elements)].lon)])

\* len(hospitals) == 0 at line 143
OsmNone(ans) == \A i \in 1..Len(ans.elements) : ~OsmUsable(ans.elements[i])

\* How many draws the try block of _find_with_overpass consumed: a fallback
\* called for a status other than 200 or for no hospital runs inside it
OverpassTryDraws(ans) ==
    IF ans.kind \in {"exception", "badjson"} THEN 0
    ELSE IF ans.kind = "status" THEN 1
    ELSE IF OsmNone(ans) THEN 1 ELSE 0

\* The try block of _find_with_overpass raises
OverpassTryRaises(location, ans, draws) ==
    \/ ans.kind \in {"exception", "badjson"}
    \/ OverpassTryDraws(ans) = 1 /\ SyntheticRaises(location, draws[1])

\* _find_with_overpass raises: its except clause called the fallback, also
\* when it was the fallback that raised, and the fallback raised
FindWithOverpassRaises(location, ans, draws) ==
    /\ OverpassTryRaises(location, ans, draws)
    /\ SyntheticRaises(location, draws[OverpassTryDraws(ans) + 1])

\* The number of times _find_with_fallback ran during find_nearby: in the
\* try block of _find_with_overpass, in its except clause, and in the
\* except clause of find_nearby
OsmFallbackRuns(settings, location, radius, ans, draws) ==
    OverpassTryDraws(ans)
    + (IF ~OverpassTryRaises(location, ans, draws) THEN 0
       ELSE IF ~FindWithOverpassRaises(location, ans, draws) THEN 1 ELSE 2)

\* _find_with_overpass, lines 139-147: the hospitals of the answer, sorted
\* and cut to the maximum
FindWithOverpass(settings, location, radius, ans) ==
    [exc |-> FALSE,
     list |-> Take(SortByDistance(OsmHospitals(location, ans.elements)),
                   settings.MAX_HOSPITAL_RESULTS)]

\* hospital_finder_osm.py, HospitalFinder.find_nearby.  When
\* _find_with_fallback ran, what its last run returned or raised is what
\* find_nearby returns or raises: lines 73 and 145 return it from the try
\* block of _find_with_overpass, line 151 from its except clause, line 35
\* from the except clause of find_nearby, where nothing catches it.
OsmFindNearby(settings, location, radius, ans, draws) ==
    IF OsmFallbackRuns(settings, location, radius, ans, draws) = 0
    THEN FindWithOverpass(settings, location, radius, ans)
    ELSE FindWithFallback(location, radius,
             draws[OsmFallbackRuns(settings, location, radius, ans, draws)])

\* _find_with_google_places, lines 73-99: the place yields a hospital.  One
\* without geometry is placed at (0, 0); one whose LocationData is rejected
\* is skipped by the except clause of the loop.
GoogleUsable(p) == ~p.hasgeo \/ ValidLocation(p.lat, p.lng)

RECURSIVE GoogleCount(_)
\* len(hospitals) after the places of results
GoogleCount(results) ==
    IF Len(results) = 0 THEN 0
    ELSE GoogleCount(SubSeq(results, 1, Len(results) - 1))
         + (IF GoogleUsable(results[Len(results)]) THEN 1 ELSE 0)

RECURSIVE GoogleHospitals(_, _)
\* _find_with_google_places, lines 71-99: a place without place_id is named
\* after the number of hospitals built so far
GoogleHospitals(location, results) ==
    IF Len(results) = 0 THEN <<>>
    ELSE IF ~GoogleUsable(results[Len(results)])
    THEN GoogleHospitals(location, SubSeq(results, 1, Len(results) - 1))
    ELSE Append(GoogleHospitals(location, SubSeq(results, 1, Len(results) - 1)),
                [id |-> IF results[Len(results)].hasid
                        THEN results[Len(results)].place_id
                        ELSE "google_" \o ToString(
                                 GoogleCount(SubSeq(results, 1, Len(results) - 1))),
                 latitude |-> IF results[Len(results)].hasgeo
                              THEN results[Len(results)].lat ELSE 0,
                 longitude |-> IF results[Len(results)].hasgeo
                               THEN results[Len(results)].lng ELSE 0,
                 distance |-> CalculateDistance(
                                  location.latitude, location.longitude,
                                  IF results[Len(results)].hasgeo
                                  THEN results[Len(results)].lat ELSE 0,
                                  IF results[Len(results)].hasgeo
                                  THEN results[Len(results)].lng ELSE 0)])

\* How many draws the try block of _find_with_google_places consumed
GooglePlacesTryDraws(ans) ==
    IF ans.kind \in {"exception", "badjson"} THEN 0
    ELSE IF ans.kind = "status" \/ ans.status # "OK" THEN 1 ELSE 0

\* The try block of _find_with_google_places raises
GooglePlacesTryRaises(location, ans, draws) ==
    \/ ans.kind \in {"exception", "badjson"}
    \/ GooglePlacesTryDraws(ans) = 1 /\ SyntheticRaises(location, draws[1])

\* _find_with_google_places raises: its except clause called the fallback,
\* and the fallback raised
FindWithGooglePlacesRaises(location, ans, draws) ==
    /\ GooglePlacesTryRaises(location, ans, draws)
    /\ SyntheticRaises(location, draws[GooglePlacesTryDraws(ans) + 1])

\* self.google_enabled
GoogleEnabled(settings) ==
    settings.GOOGLE_PLACES_ENABLED /\ settings.GOOGLE_PLACES_API_KEY # ""

\* The number of times _find_with_fallback ran during find_nearby; without
\* Google Places the fallback runs in the try block of find_nearby, and
\* again in its except clause when it raised
GoogleFallbackRuns(settings, location, radius, ans, draws) ==
    IF GoogleEnabled(settings)
    THEN GooglePlacesTryDraws(ans)
         + (IF ~GooglePlacesTryRaises(location, ans, draws) THEN 0
            ELSE IF ~FindWithGooglePlacesRaises(location, ans, draws) THEN 1
            ELSE 2)
    ELSE IF SyntheticRaises(location, draws[1]) THEN 2 ELSE 1

\* _find_with_google_places, lines 102-105: the hospitals of the answer,
\* sorted and cut to the maximum; an empty result list with status OK is
\* returned as it is
FindWithGooglePlaces(settings, location, radius, ans) ==
    [exc |-> FALSE,
     list |-> Take(SortByDistance(GoogleHospitals(location, ans.elements)),
                   settings.MAX_HOSPITAL_RESULTS)]

\* hospital_finder_google.py, HospitalFinder.find_nearby.  When
\* _find_with_fallback ran, what its last run returned or raised is what
\* find_nearby returns or raises.
GoogleFindNearby(settings, location, radius, ans, draws) ==
    IF GoogleFallbackRuns(settings, location, radius, ans, draws) = 0
    THEN FindWithGooglePlaces(settings, location, radius, ans)
    ELSE FindWithFallback(location, radius,
             draws[GoogleFallbackRuns(settings, location, radius, ans, draws)])

----------------------------------------------------------------------------
(* app/api/v1/endpoints/emergency.py *)

None == [some |-> FALSE]
Some(v) == [some |-> TRUE, v |-> v]

\* EmergencyRequest / EmergencyInput / LocationData: what FastAPI checks
\* before the handler runs.  content is any str, the empty one included.
RequestValid(request) ==
    request.location.some =>
        ValidLocation(request.location.v.latitude, request.location.v.longitude)

\* A plausible slip: the score clause compared with > instead of >=
ShouldCall_Strict(severity_result, settings) ==
    \/ severity_result.severity = "critical"
    \/ severity_result.score > settings.CRITICAL_SEVERITY_THRESHOLD

\* should_call, lines 54-57 and 142-145
ShouldCall(severity_result, settings) ==
    \/ severity_result.severity = "critical"
    \/ severity_result.score >= settings.CRITICAL_SEVERITY_THRESHOLD

\* EmergencyDetection(...) accepts the classification and the severity
DetectionValid(classification_result, severity_result) ==
    /\ classification_result.type \in EmergencyType
    /\ severity_result.severity \in SeverityLevel
    /\ 0 <= classification_result.confidence
    /\ classification_result.confidence <= Unit

\* FirstAidInstruction(**inst) accepts the instruction: step an int >= 1,
\* title and description strings, duration None or an int >= 0
InstructionValid(inst) ==
    /\ inst.step.t = "num" /\ inst.step.n >= 1
    /\ inst.title.t = "str"
    /\ inst.description.t = "str"
    /\ \/ inst.duration.t = "null"
       \/ inst.duration.t = "num" /\ inst.duration.n >= 0

\* The statements that build the response raise
ResponseRaises(endpoint, classification_result, severity_result, instructions) ==
    \/ ~DetectionValid(classification_result, severity_result)
    \/ \E i \in 1..Len(instructions) : ~InstructionValid(instructions[i])
    \* detect_emergency, line 182: response_data.detection is an
    \* EmergencyDetection, which has no __getitem__
    \/ endpoint = "detect"

\* HTTPException(500) of the endpoint's except clause
ErrorCode(endpoint) ==
    IF endpoint = "analyze" THEN "ANALYSIS_ERROR" ELSE "DETECTION_ERROR"

\* A plausible slip: the estimate decided by the level alone, as the
\* first-aid endpoint decides it
BuildResponse_EstimateByLevel(endpoint, classification_result, severity_result, call, instructions, hospitals) ==
    IF ResponseRaises(endpoint, classification_result, severity_result, instructions)
    THEN [status |-> 500, code |-> ErrorCode(endpoint)]
    ELSE [status |-> 200,
          detection |-> [emergencyType |-> classification_result.type,
                         severity |-> severity_result.severity,
                         confidence |-> classification_result.confidence],
          instructions |-> instructions,
          shouldCallEmergency |-> call,
          nearestHospital |-> IF hospitals.some /\ Len(hospitals.v) > 0
                              THEN Some(hospitals.v[1]) ELSE None,
          estimatedResponseTime |-> IF severity_result.severity = "critical"
                                    THEN Some(15) ELSE None]

\* The outcome of analyze_emergency / detect_emergency once every stage has
\* answered: the EmergencyResponse, or the HTTP 500 of the except clause
BuildResponse(endpoint, classification_result, severity_result, call, instructions, hospitals) ==
    IF ResponseRaises(endpoint, classification_result, severity_result, instructions)
    THEN [status |-> 500, code |-> ErrorCode(endpoint)]
    ELSE [status |-> 200,
          detection |-> [emergencyType |-> classification_result.type,
                         severity |-> severity_result.severity,
                         confidence |-> classification_result.confidence],
          instructions |-> instructions,
          shouldCallEmergency |-> call,
          nearestHospital |-> IF hospitals.some /\ Len(hospitals.v) > 0
                              THEN Some(hospitals.v[1]) ELSE None,
          estimatedResponseTime |-> IF call THEN Some(15) ELSE None]

----------------------------------------------------------------------------
(* core/config.py: the settings the model varies *)

\* The defaults of class Settings (no environment variable set)
DefaultSettings ==
    [AI_ENABLED |-> TRUE,
     OPENAI_API_KEY |-> "",
     CRITICAL_SEVERITY_THRESHOLD |-> 8000,
     DEFAULT_HOSPITAL_RADIUS |-> 10,
     MAX_HOSPITAL_RESULTS |-> 10,
     GOOGLE_PLACES_ENABLED |-> TRUE,
     GOOGLE_PLACES_API_KEY |-> ""]

\* AI_ENABLED and OPENAI_API_KEY as the environment may set them
AiSettings ==
    {[DefaultSettings EXCEPT !.AI_ENABLED = e, !.OPENAI_API_KEY = k] :
        e \in BOOLEAN, k \in {"", "sk-key"}}

----------------------------------------------------------------------------
(* The inputs the model explores *)

\* The longest "instructions" list of an intelligence-service answer
MaxAiSteps == 2
\* The longest list of elements or places of a directory answer
MaxElements == 3

SeqsUpTo(S, n) == UNION {[1..k -> S] : k \in 0..n}

Contents ==
    {"",
     "hello there",
     "small paper cut",
     "chest pain and can't breathe",
     "Severe BLEEDING and a broken arm",
     "He is UNCONSCIOUS, not breathing",
     "heart attack: chest pain, palpitations, cardiac arrest",
     "my stomach hurts"}

\* Answers of the intelligence service to the classification prompt
ClassifyObject(type, confidence) ==
    [kind |-> "object", type |-> type, confidence |-> confidence,
     severity |-> JAbsent, instructions |-> JAbsent, call_emergency |-> JAbsent]

ClassifyAnswers ==
    {SvcException, SvcMalformed} \cup
    {ClassifyObject(t, c) :
        t \in {JAbsent, JStr("cardiac"), JStr("Burn"), JStr("stroke"), JOther},
        c \in {JAbsent, JNum(9500), JNum(10000), JNum(15000), JNum(-2000),
               JStr("0.9"), JStr("high")}}

\* Answers of the intelligence service to the severity prompt
ScoreObject(severity, score) ==
    [kind |-> "object", severity |-> severity, score |-> score,
     reasoning |-> JAbsent]

ScoreAnswers ==
    {SvcException, SvcMalformed} \cup
    {ScoreObject(s, x) :
        s \in {JAbsent, JStr("critical"), JStr("LOW"), JStr("high"),
               JStr("severe"), JOther},
        x \in {JAbsent, JNum(9500), JNum(8000), JNum(3000), JNum(70000),
               JNum(-1000), JStr("bad")}}

\* Answers of the intelligence service to the instruction prompt
AiItems ==
    {[isdict |-> TRUE, step |-> s, title |-> t, description |-> JAbsent,
      duration |-> JAbsent] :
        s \in {JAbsent, JNum(1), JNum(2), JNum(5), JNum(0)},
        t \in {JAbsent, JStr("Call 911")}}
    \cup {[isdict |-> FALSE, step |-> JAbsent, title |-> JAbsent,
           description |-> JAbsent, duration |-> JAbsent]}

GenerateAnswers ==
    {SvcException, SvcMalformed,
     [kind |-> "object", instructions |-> JAbsent, items |-> <<>>],
     [kind |-> "object", instructions |-> JOther, items |-> <<>>]}
    \cup {[kind |-> "object", instructions |-> JEmptyList, items |-> items] :
            items \in SeqsUpTo(AiItems, MaxAiSteps)}

\* Draws of a synthetic generator: n hospitals, each offset by one of the
\* pairs of OffsetPairs
\* the first VariedOffsets hospitals take any of the pairs, the others the
\* pair of the last of them
VariedOffsets == 3

DrawsOf(counts, pairs) ==
    UNION {{[n |-> k, offs |-> [i \in 1..k |-> o[Min(i, VariedOffsets)]]] :
               o \in [1..VariedOffsets -> pairs]} : k \in counts}

\* random.randint(5, 8) hospitals, uniform(-0.45, 0.45) offsets
MockDraws == DrawsOf(5..8, OffsetPairs(MockMaxOffset))

\* random.randint(3, 5) hospitals, uniform(-max_offset, max_offset) offsets
FallbackDraws(radius) == DrawsOf(3..5, OffsetPairs(MaxOffset(radius)))

\* The draws explored for a fallback that runs again after it raised
RetryDraws(radius) ==
    {[n |-> 3, offs |-> [i \in 1..3 |-> o]] :
        o \in {<<MaxOffset(radius), MaxOffset(radius)>>, <<0, 0>>}}

\* A draw standing for one that is never made
UnusedDraw == [n |-> 0, offs |-> <<>>]

\* Elements of an Overpass answer around a location
OsmElements(location) ==
    {[type |-> "node", hasid |-> TRUE, id |-> 1, haspos |-> TRUE,
      lat |-> location.latitude + 20, lon |-> location.longitude - 30],
     [type |-> "way", hasid |-> TRUE, id |-> 1, haspos |-> TRUE,
      lat |-> location.latitude - 60, lon |-> location.longitude - 70],
     [type |-> "node", hasid |-> TRUE, id |-> 2, haspos |-> TRUE,
      lat |-> location.latitude - 45, lon |-> location.longitude - 10],
     [type |-> "way", hasid |-> TRUE, id |-> 3, haspos |-> FALSE,
      lat |-> 0, lon |-> 0],
     [type |-> "node", hasid |-> FALSE, id |-> 0, haspos |-> TRUE,
      lat |-> location.latitude, lon |-> location.longitude]}

\* Places of a Google Places answer around a location
GooglePlaces(location) ==
    {[hasid |-> TRUE, place_id |-> "ChIJ1", hasgeo |-> TRUE,
      lat |-> location.latitude + 20, lng |-> location.longitude - 30],
     [hasid |-> TRUE, place_id |-> "ChIJ2", hasgeo |-> TRUE,
      lat |-> location.latitude - 60, lng |-> location.longitude - 70],
     [hasid |-> FALSE, place_id |-> "", hasgeo |-> TRUE,
      lat |-> location.latitude - 45, lng |-> location.longitude - 10],
     [hasid |-> FALSE, place_id |-> "", hasgeo |-> FALSE,
      lat |-> 0, lng |-> 0]}

\* Outcomes of the directory request
DirException == [kind |-> "exception"]
DirStatus == [kind |-> "status"]
DirBadJson == [kind |-> "badjson"]

DirectoryAnswers(finder, location) ==
    IF finder = "osm"
    THEN {DirException, DirStatus, DirBadJson} \cup
         {[kind |-> "ok", status |-> "OK", elements |-> es] :
             es \in SeqsUpTo(OsmElements(location), MaxElements)}
    ELSE IF finder = "google"
    THEN {DirException, DirStatus, DirBadJson} \cup
         {[kind |-> "ok", status |-> "ZERO_RESULTS", elements |-> <<>>]} \cup
         {[kind |-> "ok", status |-> "OK", elements |-> es] :
             es \in SeqsUpTo(GooglePlaces(location), MaxElements)}
    ELSE {NoCall}

----------------------------------------------------------------------------
(* The state machine *)

Unset == [unset |-> TRUE]
NoAnswers ==
    [classify |-> NoCall, score |-> NoCall, generate |-> NoCall,
     directory |-> NoCall, draws |-> <<>>]

\* The variables a behaviour starts from, whatever it exercises
InitCommon ==
    /\ cls = Unset
    /\ sev = Unset
    /\ should_call = FALSE
    /\ instr = Unset
    /\ hosp = None
    /\ resp = None
    /\ svc = NoAnswers
    /\ trace = <<>>

(* One call of EmergencyClassifier.classify *)

InitClassify ==
    /\ mode = "classify"
    /\ pc = "call"
    /\ cfg \in AiSettings
    /\ req \in [content : Contents, models_on_disk : BOOLEAN]
    /\ InitCommon

ClassifyCall ==
    /\ mode = "classify" /\ pc = "call"
    /\ \E ans \in ClassifyAnswers :
        LET used == IF AiConfigured(cfg) THEN ans ELSE NoCall
        IN  /\ cls' = Classify(cfg, req.content, ans)
            /\ svc' = [svc EXCEPT !.classify = used]
            /\ trace' = trace \o ClassifyStages(cfg, ans)
    /\ pc' = "returned"
    /\ UNCHANGED <<mode, cfg, req, sev, should_call, instr, hosp, resp>>

SpecClassify == InitClassify /\ [][ClassifyCall]_vars

(* One CustomEmergencyClassifier: its constructor, further calls of        *)
(* load_models, and one call of classify                                   *)

\* The most calls of load_models on one object, the constructor's included
MaxLoads == 2

InitCustom ==
    /\ mode = "custom"
    /\ pc = "new"
    /\ cfg = [category_model |-> FALSE, severity_model |-> FALSE, config |-> FALSE]
    /\ req \in [text : {"chest pain", ""}]
    /\ InitCommon

\* self.load_models(), first from __init__; svc.draws keeps the files each
\* call found
LoadModelsCall ==
    /\ mode = "custom" /\ pc \in {"new", "loaded"}
    /\ Len(svc.draws) < MaxLoads
    /\ \E files \in [cat : {"missing", "ok", "corrupt"},
                      sev : {"missing", "ok", "corrupt"},
                      config : {"missing", "ok", "corrupt"}] :
        /\ cfg' = LoadModels(cfg, files)
        /\ svc' = [svc EXCEPT !.draws = Append(svc.draws, files)]
    /\ pc' = "loaded"
    /\ trace' = Append(trace, "load")
    /\ UNCHANGED <<mode, req, cls, sev, should_call, instr, hosp, resp>>

\* classify(text)
CustomClassifyCall ==
    /\ mode = "custom" /\ pc = "loaded"
    /\ \E prediction \in
           {[raises |-> TRUE, category |-> "", cat_confidence |-> 0,
             severity |-> "", sev_confidence |-> 0],
            [raises |-> FALSE, category |-> "cardiac", cat_confidence |-> 9000,
             severity |-> "critical", sev_confidence |-> 7000]} :
        /\ cls' = CustomClassify(cfg, req.text, prediction)
        /\ svc' = [svc EXCEPT !.classify = IF IsAvailable(cfg) THEN prediction
                                           ELSE NoCall]
    /\ pc' = "returned"
    /\ trace' = Append(trace, "classify:model")
    /\ UNCHANGED <<mode, cfg, req, sev, should_call, instr, hosp, resp>>

SpecCustom == InitCustom /\ [][LoadModelsCall \/ CustomClassifyCall]_vars

(* One call of SeverityScorer.score *)

ScoreConfidences == {0, 3000, 7000, 9000, 10000}

\* Contents with enough keywords of one tier to pass its cap: five high,
\* four moderate, five critical
ScoreContents ==
    Contents \cup
    {"urgent emergency: severe burn, maybe poison",
     "cut wound hurt injury",
     "unconscious, not breathing, choking, chest pain, heart attack"}

InitScore ==
    /\ mode = "score"
    /\ pc = "call"
    /\ cfg \in AiSettings
    /\ req \in [emergency_type : EmergencyType \cup {"stroke"},
                content : ScoreContents,
                classification_confidence : ScoreConfidences]
    /\ InitCommon

ScoreCall ==
    /\ mode = "score" /\ pc = "call"
    /\ \E ans \in ScoreAnswers :
        LET used == IF AiConfigured(cfg) THEN ans ELSE NoCall
        IN  /\ sev' = Score(cfg, req.emergency_type, req.content,
                            req.classification_confidence, ans)
            /\ svc' = [svc EXCEPT !.score = used]
            /\ trace' = trace \o ScoreStages(cfg, ans)
    /\ pc' = "returned"
    /\ UNCHANGED <<mode, cfg, req, cls, should_call, instr, hosp, resp>>

SpecScore == InitScore /\ [][ScoreCall]_vars

(* One call of FirstAidGenerator.generate_instructions *)

InitGenerate ==
    /\ mode = "generate"
    /\ pc = "call"
    /\ cfg \in AiSettings
    /\ req \in [emergency_type : EmergencyType \cup TemplateKeys \cup {"stroke"},
                severity : SeverityLevel]
    /\ InitCommon

GenerateCall ==
    /\ mode = "generate" /\ pc = "call"
    /\ \E ans \in GenerateAnswers :
        LET used == IF AiConfigured(cfg) THEN ans ELSE NoCall
        IN  /\ instr' = GenerateInstructions(cfg, req.emergency_type,
                                             req.severity, ans)
            /\ svc' = [svc EXCEPT !.generate = used]
            /\ trace' = trace \o GenerateStages(cfg, ans)
    /\ pc' = "returned"
    /\ UNCHANGED <<mode, cfg, req, cls, sev, should_call, hosp, resp>>

SpecGenerate == InitGenerate /\ [][GenerateCall]_vars


(* One call of HospitalFinder.find_nearby, for each of the three finders *)

\* find_nearby of the finder named: "mock" is hospital_finder.py, the one
\* the triage endpoints import; "osm" is the one the hospital endpoint imports
FindNearby(finder, settings, location, radius, ans, draws) ==
    CASE finder = "mock" -> MockFindNearby(location, radius, draws[1])
      [] finder = "osm" -> OsmFindNearby(settings, location, radius, ans, draws)
      [] finder = "google" -> GoogleFindNearby(settings, location, radius, ans, draws)

\* How many draws of the random module the call consumes
DrawsMade(finder, settings, location, radius, ans, draws) ==
    CASE finder = "mock" -> 1
      [] finder = "osm" -> OsmFallbackRuns(settings, location, radius, ans, draws)
      [] finder = "google" -> GoogleFallbackRuns(settings, location, radius, ans, draws)

\* Whether the finder called its directory
DirectoryCalled(finder, settings) ==
    finder = "osm" \/ (finder = "google" /\ GoogleEnabled(settings))

FinderStages(finder, settings, location, radius, ans, draws) ==
    (IF DirectoryCalled(finder, settings) THEN <<"find:directory">> ELSE <<>>)
    \o [i \in 1..DrawsMade(finder, settings, location, radius, ans, draws) |->
          "find:synthetic"]

FinderSettings(finder) ==
    {[DefaultSettings EXCEPT !.MAX_HOSPITAL_RESULTS = m,
                             !.GOOGLE_PLACES_API_KEY = k] :
        m \in {2, 10},
        k \in IF finder = "google" THEN {"", "g-key"} ELSE {""}}

InitFinder ==
    /\ mode = "finder"
    /\ pc = "call"
    /\ req \in [finder : {"mock", "osm", "google"},
                location : Locations,
                radius : Radii]
    /\ cfg \in FinderSettings(req.finder)
    /\ InitCommon

FindNearbyCall ==
    /\ mode = "finder" /\ pc = "call"
    /\ \E ans \in IF DirectoryCalled(req.finder, cfg)
                  THEN DirectoryAnswers(req.finder, req.location)
                  ELSE {NoCall} :
        LET U == UnusedDraw
            made(draws) == DrawsMade(req.finder, cfg, req.location, req.radius,
                                     ans, draws)
            first == IF req.finder = "mock" THEN MockDraws
                     ELSE FallbackDraws(req.radius)
        IN  \E d1 \in IF made(<<U, U, U>>) >= 1 THEN first ELSE {U} :
            \E d2 \in IF made(<<d1, U, U>>) >= 2 THEN RetryDraws(req.radius) ELSE {U} :
            \E d3 \in IF made(<<d1, d2, U>>) >= 3 THEN RetryDraws(req.radius) ELSE {U} :
                LET draws == <<d1, d2, d3>>
                IN  /\ hosp' = Some(FindNearby(req.finder, cfg, req.location,
                                               req.radius, ans, draws))
                    /\ svc' = [svc EXCEPT
                                 !.directory = ans,
                                 !.draws = SubSeq(draws, 1, made(draws))]
                    /\ trace' = trace \o FinderStages(req.finder, cfg, req.location,
                                                      req.radius, ans, draws)
    /\ pc' = "returned"
    /\ UNCHANGED <<mode, cfg, req, cls, sev, should_call, instr, resp>>

SpecFinder == InitFinder /\ [][FindNearbyCall]_vars


(* Two requests to /analyze in flight in one server process.  uvicorn.run *)
(* (main.py 77) serves them on one event loop.  analyze_emergency is a     *)
(* coroutine whose awaits are all on coroutines that never suspend: the    *)
(* intelligence service is called through the blocking client              *)
(* (client.chat.completions.create, not awaited), so a handler that has    *)
(* started keeps the loop until it returns.  Here pc, req, cls, sev,       *)
(* should_call, instr and resp hold one value per request, and the         *)
(* requests carry no location.                                             *)

Requests == {1, 2}

InitConcurrent ==
    /\ mode = "concurrent"
    /\ pc = [r \in Requests |-> "received"]
    /\ cfg \in {c \in AiSettings : c.AI_ENABLED}
    /\ req \in [Requests -> [content : {"hello there",
                                        "chest pain and can't breathe"}]]
    /\ cls = [r \in Requests |-> Unset]
    /\ sev = [r \in Requests |-> Unset]
    /\ should_call = [r \in Requests |-> FALSE]
    /\ instr = [r \in Requests |-> Unset]
    /\ hosp = None
    /\ resp = [r \in Requests |-> None]
    /\ svc = NoAnswers
    /\ trace = <<>>

\* The event loop starts the handler of request r: no other handler is
\* between its first and its last statement
HandlerStarts(r) ==
    /\ mode = "concurrent" /\ pc[r] = "received"
    /\ \A s \in Requests : pc[s] \in {"received", "done"}
    /\ pc' = [pc EXCEPT ![r] = "classify"]
    /\ trace' = Append(trace, <<r, "start">>)
    /\ UNCHANGED <<mode, cfg, req, cls, sev, should_call, instr, hosp, resp, svc>>

\* The handler of request r runs its next stage; with the service
\* configured the stage returns when the service has answered or failed
HandlerRuns(r) ==
    /\ mode = "concurrent"
    /\ \/ /\ pc[r] = "classify"
          /\ \E ans \in IF AiConfigured(cfg)
                        THEN {SvcException, ClassifyObject(JStr("cardiac"), JNum(9500))}
                        ELSE {NoCall} :
               cls' = [cls EXCEPT ![r] = Classify(cfg, req[r].content, ans)]
          /\ pc' = [pc EXCEPT ![r] = "score"]
          /\ UNCHANGED <<sev, should_call, instr, resp>>
       \/ /\ pc[r] = "score"
          /\ \E ans \in IF AiConfigured(cfg)
                        THEN {SvcMalformed, ScoreObject(JStr("high"), JNum(7900))}
                        ELSE {NoCall} :
               /\ sev' = [sev EXCEPT ![r] =
                             Score(cfg, cls[r].type, req[r].content,
                                   cls[r].confidence, ans)]
               /\ should_call' = [should_call EXCEPT ![r] = ShouldCall(sev'[r], cfg)]
          /\ pc' = [pc EXCEPT ![r] = "instructions"]
          /\ UNCHANGED <<cls, instr, resp>>
       \/ /\ pc[r] = "instructions"
          /\ \E ans \in IF AiConfigured(cfg)
                        THEN {SvcException,
                              [kind |-> "object", instructions |-> JAbsent,
                               items |-> <<>>]}
                        ELSE {NoCall} :
               instr' = [instr EXCEPT ![r] =
                           GenerateInstructions(cfg, cls[r].type,
                                                sev[r].severity, ans)]
          /\ pc' = [pc EXCEPT ![r] = "respond"]
          /\ UNCHANGED <<cls, sev, should_call, resp>>
       \/ /\ pc[r] = "respond"
          /\ resp' = [resp EXCEPT ![r] =
                        Some(BuildResponse("analyze", cls[r], sev[r],
                                           should_call[r], instr[r].list, None))]
          /\ pc' = [pc EXCEPT ![r] = "done"]
          /\ UNCHANGED <<cls, sev, should_call, instr>>
    /\ trace' = Append(trace, <<r, pc[r]>>)
    /\ UNCHANGED <<mode, cfg, req, hosp, svc>>

SpecConcurrent ==
    InitConcurrent /\ [][\E r \in Requests : HandlerStarts(r) \/ HandlerRuns(r)]_vars

(* Two calls of find_nearby of hospital_finder.py with one coordinate and   *)
(* one radius, in one process                                              *)

InitRepeat ==
    /\ mode = "repeat"
    /\ pc = "first"
    /\ cfg = DefaultSettings
    /\ req \in [location : Locations, radius : Radii]
    /\ InitCommon

\* One call: _generate_nearby_hospitals draws from the random module, which
\* nothing seeds.  hosp keeps the first result, resp the second.
FindNearbyAgain ==
    /\ mode = "repeat" /\ pc \in {"first", "second"}
    /\ \E draw \in {d \in MockDraws : \A i \in 1..d.n : d.offs[i] = d.offs[1]} :
        /\ IF pc = "first"
           THEN /\ hosp' = Some(MockFindNearby(req.location, req.radius, draw))
                /\ resp' = resp
           ELSE /\ resp' = Some(MockFindNearby(req.location, req.radius, draw))
                /\ hosp' = hosp
        /\ svc' = [svc EXCEPT !.draws = Append(svc.draws, draw)]
    /\ pc' = IF pc = "first" THEN "second" ELSE "returned"
    /\ trace' = Append(trace, "find:synthetic")
    /\ UNCHANGED <<mode, cfg, req, cls, sev, should_call, instr>>

SpecRepeat == InitRepeat /\ [][FindNearbyAgain]_vars

(* One call of HospitalFinder._calculate_distance *)

\* Coordinates LocationData accepts: the origin, cities of both hemispheres,
\* the poles and the two ends of the longitude range
Coordinates ==
    {[latitude |-> 0, longitude |-> 0],
     [latitude |-> 40713, longitude |-> -74006],
     [latitude |-> 40803, longitude |-> -73916],
     [latitude |-> 51507, longitude |-> -128],
     [latitude |-> -33868, longitude |-> 151209],
     [latitude |-> 90000, longitude |-> 0],
     [latitude |-> -90000, longitude |-> 45000],
     [latitude |-> 0, longitude |-> 180000],
     [latitude |-> 0, longitude |-> -180000]}

InitDistance ==
    /\ mode = "distance"
    /\ pc = "call"
    /\ cfg = DefaultSettings
    /\ req \in [a : Coordinates, b : Coordinates]
    /\ InitCommon

CalculateDistanceCall ==
    /\ mode = "distance" /\ pc = "call"
    /\ resp' = Some(CalculateDistance(req.a.latitude, req.a.longitude,
                                      req.b.latitude, req.b.longitude))
    /\ trace' = Append(trace, "distance")
    /\ pc' = "returned"
    /\ UNCHANGED <<mode, cfg, req, cls, sev, should_call, instr, hosp, svc>>

SpecDistance == InitDistance /\ [][CalculateDistanceCall]_vars


(* One request to POST /emergency/analyze or POST /emergency/detect *)

\* Settings of the triage behaviours: the intelligence service configured or
\* not, the threshold at its default or lowered
TriageSettings ==
    {[DefaultSettings EXCEPT !.OPENAI_API_KEY = k,
                             !.CRITICAL_SEVERITY_THRESHOLD = t] :
        k \in {"", "sk-key"}, t \in {8000, 5000}}

TriageContents ==
    {"hello there", "chest pain and can't breathe",
     "He is UNCONSCIOUS, not breathing"}

\* The contents of a request served with no intelligence service configured
RulesContents ==
    Contents \cup
    {"He is choking",
     "urgent emergency burn: bleeding blood cut wound hemorrhage laceration"}

\* A location FastAPI rejects (latitude 91), beside those of Locations
TriageLocations ==
    {None, Some([latitude |-> 91000, longitude |-> 0])}
    \cup {Some(l) : l \in Locations}

TriageClassifyAnswers ==
    {SvcException,
     ClassifyObject(JStr("cardiac"), JNum(9500)),
     ClassifyObject(JStr("stroke"), JNum(9500)),
     ClassifyObject(JStr("Burn"), JAbsent),
     ClassifyObject(JStr("cardiac"), JNum(15000))}

TriageScoreAnswers ==
    {SvcMalformed,
     ScoreObject(JStr("LOW"), JNum(8000)),
     ScoreObject(JStr("high"), JNum(7900)),
     ScoreObject(JStr("critical"), JNum(3000)),
     ScoreObject(JStr("severe"), JNum(3000)),
     ScoreObject(JStr("moderate"), JNum(70000))}

TriageGenerateAnswers ==
    {a \in GenerateAnswers :
        \/ a = SvcException
        \/ /\ a.kind = "object" /\ a.instructions = JEmptyList
           /\ \A i \in 1..Len(a.items) :
                /\ a.items[i].isdict
                /\ a.items[i].title = JStr("Call 911")
                /\ a.items[i].step \in {JNum(i), JNum(0)}}

\* Five hospitals at one offset, or two at the largest offset followed by
\* three at the request's own coordinate
TriageDraws ==
    {d \in MockDraws :
        /\ d.n = 5
        /\ d.offs[2] = d.offs[1]
        /\ \/ d.offs[3] = d.offs[1]
           \/ d.offs[1] = <<MockMaxOffset, MockMaxOffset>> /\ d.offs[3] = <<0, 0>>}

Init ==
    /\ mode = "triage"
    /\ pc = "received"
    /\ cfg \in TriageSettings
    /\ req \in [endpoint : {"analyze", "detect"},
                content : IF AiConfigured(cfg) THEN TriageContents
                          ELSE TriageContents \cup RulesContents,
                location : TriageLocations]
    /\ InitCommon

\* FastAPI validates the body against EmergencyRequest before the handler
\* runs; a body it rejects is answered 422 and the handler never runs
ValidateRequest ==
    /\ mode = "triage" /\ pc = "received"
    /\ IF RequestValid(req)
       THEN pc' = "classify" /\ resp' = resp
       ELSE pc' = "done" /\ resp' = Some([status |-> 422])
    /\ trace' = Append(trace, "validate")
    /\ UNCHANGED <<mode, cfg, req, cls, sev, should_call, instr, hosp, svc>>

\* classification_result = await classifier.classify(...)
ClassifyStep ==
    /\ mode = "triage" /\ pc = "classify"
    /\ \E ans \in IF AiConfigured(cfg) THEN TriageClassifyAnswers ELSE {NoCall} :
        /\ cls' = Classify(cfg, req.content, ans)
        /\ svc' = [svc EXCEPT !.classify = ans]
        /\ trace' = trace \o ClassifyStages(cfg, ans)
    /\ pc' = "score"
    /\ UNCHANGED <<mode, cfg, req, sev, should_call, instr, hosp, resp>>

\* severity_result = await scorer.score(...); should_call = ...
ScoreStep ==
    /\ mode = "triage" /\ pc = "score"
    /\ \E ans \in IF AiConfigured(cfg) THEN TriageScoreAnswers ELSE {NoCall} :
        LET severity_result == Score(cfg, cls.type, req.content, cls.confidence, ans)
        IN  /\ sev' = severity_result
            /\ should_call' = ShouldCall(severity_result, cfg)
            /\ svc' = [svc EXCEPT !.score = ans]
            /\ trace' = trace \o ScoreStages(cfg, ans)
    /\ pc' = "instructions"
    /\ UNCHANGED <<mode, cfg, req, cls, instr, hosp, resp>>

\* instructions = await first_aid_service.generate_instructions(...)
InstructionsStep ==
    /\ mode = "triage" /\ pc = "instructions"
    /\ \E ans \in IF AiConfigured(cfg) THEN TriageGenerateAnswers ELSE {NoCall} :
        /\ instr' = GenerateInstructions(cfg, cls.type, sev.severity, ans)
        /\ svc' = [svc EXCEPT !.generate = ans]
        /\ trace' = trace \o GenerateStages(cfg, ans)
    /\ pc' = "hospital"
    /\ UNCHANGED <<mode, cfg, req, cls, sev, should_call, hosp, resp>>

\* if request.input.location: hospitals = await hospital_finder.find_nearby(
\* location, radius=settings.DEFAULT_HOSPITAL_RADIUS), with the HospitalFinder
\* of hospital_finder.py
HospitalStep ==
    /\ mode = "triage" /\ pc = "hospital"
    /\ IF req.location.some
       THEN \E draw \in TriageDraws :
               /\ hosp' = Some(MockFindNearby(req.location.v,
                                              cfg.DEFAULT_HOSPITAL_RADIUS, draw).list)
               /\ svc' = [svc EXCEPT !.draws = <<draw>>]
               /\ trace' = Append(trace, "find:synthetic")
       ELSE UNCHANGED <<hosp, svc, trace>>
    /\ pc' = "respond"
    /\ UNCHANGED <<mode, cfg, req, cls, sev, should_call, instr, resp>>

\* The EmergencyResponse is built and returned, or the except clause raises
\* HTTPException(500)
Respond ==
    /\ mode = "triage" /\ pc = "respond"
    /\ resp' = Some(BuildResponse(req.endpoint, cls, sev, should_call,
                                  instr.list, hosp))
    /\ pc' = "done"
    /\ trace' = Append(trace, "respond")
    /\ UNCHANGED <<mode, cfg, req, cls, sev, should_call, instr, hosp, svc>>

Next ==
    \/ ValidateRequest
    \/ ClassifyStep
    \/ ScoreStep
    \/ InstructionsStep
    \/ HospitalStep
    \/ Respond

Spec == Init /\ [][Next]_vars


----------------------------------------------------------------------------
(* Properties *)

\* C1: every triage request that passes validation ends with a complete
\* response (HTTP 200), never with the HTTP 500 of the except clause,
\* whatever the optional stages answered.
C1_ValidRequestEndsWithResponse ==
    (mode = "triage" /\ pc = "done" /\ RequestValid(req)) =>
        resp.v.status = 200

\* A valid /analyze request answered 500 after the intelligence service
\* named a category outside the catalog
C1_OffCatalogAnswerEndsInError ==
    /\ mode = "triage" /\ pc = "done"
    /\ RequestValid(req) /\ req.endpoint = "analyze"
    /\ svc.classify = ClassifyObject(JStr("stroke"), JNum(9500))
    /\ resp.v = [status |-> 500, code |-> "ANALYSIS_ERROR"]

C3_CategoryInCatalog ==
    (mode = "classify" /\ pc = "returned") => cls.type \in EmergencyType

\* The service answered "stroke" and classify returned it
C3_OffCatalogCategoryReturned ==
    /\ mode = "classify" /\ pc = "returned"
    /\ svc.classify = ClassifyObject(JStr("stroke"), JNum(9500))
    /\ cls.type = "stroke"

\* C4: the confidence of the result returned by classify lies in [0,1], on
\* the rules path and on the intelligence-service path.
C4_ConfidenceInUnitInterval ==
    (mode = "classify" /\ pc = "returned") =>
        (0 <= cls.confidence /\ cls.confidence <= Unit)

\* The service answered confidence 1.5 and classify returned it
C4_ConfidenceAboveOne ==
    /\ mode = "classify" /\ pc = "returned"
    /\ svc.classify = ClassifyObject(JStr("cardiac"), JNum(15000))
    /\ cls.confidence = 15000

\* C5: score returns a level of SeverityLevel that is the band of the
\* pre-adjustment score (the tier score on the rules path, the answer's
\* score on the intelligence-service path) and a final score in [0,1].
C5_LevelAgreesWithScoreBand ==
    (mode = "score" /\ pc = "returned") =>
        LET rules == \E i \in 1..Len(trace) : trace[i] = "score:rules"
            pre == IF rules
                   THEN RulesTier(req.emergency_type, req.content).score
                   ELSE sev.score
        IN  /\ sev.severity \in SeverityLevel
            /\ sev.severity = LevelOfScore(pre)
            /\ 0 <= sev.score /\ sev.score <= Unit

\* The service answered level "high" with score 0.95, the band of critical
C5_LevelOutsideItsBand ==
    /\ mode = "score" /\ pc = "returned"
    /\ svc.score = ScoreObject(JStr("high"), JNum(9500))
    /\ sev.severity = "high" /\ sev.score = 9500

\* C6: the sequence returned by generate_instructions is not empty, its
\* step numbers are 1..N in order whatever the source numbered, and its
\* ids are pairwise distinct.
C6_StepsAreOneToN ==
    (mode = "generate" /\ pc = "returned") =>
        /\ Len(instr.list) > 0
        /\ \A i \in 1..Len(instr.list) : instr.list[i].step = JNum(i)
        /\ \A i, j \in 1..Len(instr.list) :
               instr.list[i].id = instr.list[j].id => i = j

\* The service answered one instruction numbered 5 and it was returned so
C6_SourceNumberingKept ==
    /\ mode = "generate" /\ pc = "returned"
    /\ svc.generate.kind = "object"
    /\ Len(svc.generate.items) = 1
    /\ svc.generate.items[1].step = JNum(5)
    /\ Len(instr.list) = 1
    /\ instr.list[1].step = JNum(5)

\* C7: the list find_nearby returns is sorted ascending by distance and has
\* at most MAX_HOSPITAL_RESULTS elements, on every path.
C7_SortedAndTruncated ==
    (mode = "finder" /\ pc = "returned" /\ ~hosp.v.exc) =>
        /\ \A i \in 1..(Len(hosp.v.list) - 1) :
               hosp.v.list[i].distance <= hosp.v.list[i + 1].distance
        /\ Len(hosp.v.list) <= cfg.MAX_HOSPITAL_RESULTS

\* The directory of the OSM finder failed and the fallback returned five
\* hospitals under a maximum of two
C7_FallbackLongerThanMaximum ==
    /\ mode = "finder" /\ pc = "returned"
    /\ req.finder = "osm"
    /\ svc.directory = DirException
    /\ cfg.MAX_HOSPITAL_RESULTS = 2
    /\ ~hosp.v.exc
    /\ Len(hosp.v.list) = 5

\* C8: every synthetic facility returned for a request of radius r lies
\* within r/111.0 degrees of the request coordinate in each axis and at a
\* computed distance of at most r, for the three finders.
C8_SyntheticWithinRadius ==
    (mode = "finder" /\ pc = "returned" /\ ~hosp.v.exc) =>
        \A i \in 1..Len(hosp.v.list) :
            LET h == hosp.v.list[i]
            IN  (Contains("hosp_", h.id) \/ Contains("fallback_", h.id)) =>
                    /\ Abs(h.latitude - req.location.latitude) <= MaxOffset(req.radius)
                    /\ Abs(h.longitude - req.location.longitude) <= MaxOffset(req.radius)
                    /\ h.distance <= req.radius * 1000

\* The finder of the triage endpoints placed a hospital 0.45 degrees away
\* for a radius of 10 km
C8_MockIgnoresRadius ==
    /\ mode = "finder" /\ pc = "returned"
    /\ req.finder = "mock" /\ req.radius = 10
    /\ ~hosp.v.exc
    /\ \E i \in 1..Len(hosp.v.list) :
           /\ hosp.v.list[i].latitude - req.location.latitude = MockMaxOffset
           /\ hosp.v.list[i].distance > req.radius * 1000

\* C9: find_nearby returns a list for every valid request coordinate and
\* every outcome of the directory, and never raises; when a synthetic
\* generator ran, the list holds the facilities it generated.
C9_FindNearbyNeverFails ==
    (mode = "finder" /\ pc = "returned"
        /\ ValidLocation(req.location.latitude, req.location.longitude)) =>
        /\ ~hosp.v.exc
        /\ svc.draws # <<>> =>
               Len(hosp.v.list) = svc.draws[Len(svc.draws)].n

\* At the pole the directory of the OSM finder failed, every fallback run
\* placed a hospital beyond latitude 90, and find_nearby raised
C9_RaisesAtThePole ==
    /\ mode = "finder" /\ pc = "returned"
    /\ req.finder = "osm"
    /\ req.location = [latitude |-> 90000, longitude |-> 0]
    /\ svc.directory = DirException
    /\ Len(svc.draws) = 2
    /\ hosp.v.exc

\* C10: once the severity is scored, should_call is true exactly when the
\* level is critical or the score is at least CRITICAL_SEVERITY_THRESHOLD,
\* and a triage response carries that value as shouldCallEmergency.
C10_CallDecision ==
    (mode = "triage" /\ RequestValid(req)
        /\ pc \in {"instructions", "hospital", "respond", "done"}) =>
        /\ should_call <=> (sev.severity = "critical"
                            \/ sev.score >= cfg.CRITICAL_SEVERITY_THRESHOLD)
        /\ (pc = "done" /\ resp.v.status = 200) =>
               resp.v.shouldCallEmergency = should_call

\* A response whose level is low and whose score equals the threshold
C10_CallAtThreshold ==
    /\ mode = "triage" /\ pc = "done"
    /\ resp.v.status = 200
    /\ sev.severity = "low"
    /\ sev.score = cfg.CRITICAL_SEVERITY_THRESHOLD
    /\ resp.v.shouldCallEmergency

\* C11: for the content "chest pain and can't breathe", when the rules
\* engines classify and score it, the category is cardiac or respiratory,
\* the level is critical and should_call is true; a response built from
\* them carries shouldCallEmergency = true.
C11_ChestPainIsCritical ==
    (mode = "triage"
        /\ pc \in {"instructions", "hospital", "respond", "done"}
        /\ req.content = "chest pain and can't breathe"
        /\ InList("classify:rules", trace) /\ InList("score:rules", trace)) =>
        /\ cls.type \in {"cardiac", "respiratory"}
        /\ sev.severity = "critical"
        /\ should_call
        /\ (pc = "done" /\ resp.v.status = 200) =>
               /\ resp.v.shouldCallEmergency
               /\ resp.v.detection.severity = "critical"

\* /analyze answered the content with no intelligence service configured:
\* cardiac, critical, call
C11_ChestPainAnswered ==
    /\ mode = "triage" /\ pc = "done"
    /\ req.content = "chest pain and can't breathe"
    /\ ~AiConfigured(cfg)
    /\ InList("classify:rules", trace) /\ InList("score:rules", trace)
    /\ resp.v.status = 200
    /\ resp.v.detection.emergencyType = "cardiac"
    /\ resp.v.detection.confidence = 6000
    /\ resp.v.detection.severity = "critical"
    /\ resp.v.shouldCallEmergency

\* C12: for the content "small paper cut", when the rules engines classify
\* it and score it with the classified category, the level is low and
\* should_call is false.
C12_PaperCutIsLow ==
    (mode = "triage"
        /\ pc \in {"instructions", "hospital", "respond", "done"}
        /\ req.content = "small paper cut"
        /\ InList("classify:rules", trace) /\ InList("score:rules", trace)) =>
        /\ sev.severity = "low"
        /\ ~should_call

\* /analyze answered the content with category bleeding and level high
C12_PaperCutIsHigh ==
    /\ mode = "triage" /\ pc = "done"
    /\ req.content = "small paper cut"
    /\ InList("classify:rules", trace) /\ InList("score:rules", trace)
    /\ resp.v.status = 200
    /\ resp.v.detection.emergencyType = "bleeding"
    /\ resp.v.detection.severity = "high"
    /\ ~resp.v.shouldCallEmergency

\* C13: for a content that holds no classification keyword, the empty one
\* included, the rules engines give category unknown, confidence 0.3 and
\* level low.
C13_UnknownContentIsLow ==
    (mode = "triage"
        /\ pc \in {"instructions", "hospital", "respond", "done"}
        /\ BestIndex(Lower(req.content)) = 0
        /\ InList("classify:rules", trace) /\ InList("score:rules", trace)) =>
        /\ cls.type = "unknown"
        /\ cls.confidence = 3000
        /\ sev.severity = "low"

\* "He is choking" holds no classification keyword ("choke" is one,
\* "choking" is not) and one critical keyword: unknown, 0.3, critical
C13_UnknownContentIsCritical ==
    /\ mode = "triage" /\ pc = "done"
    /\ req.content = "He is choking"
    /\ InList("classify:rules", trace) /\ InList("score:rules", trace)
    /\ resp.v.status = 200
    /\ resp.v.detection.emergencyType = "unknown"
    /\ resp.v.detection.confidence = 3000
    /\ resp.v.detection.severity = "critical"

\* C14: when the intelligence service raises during classification (a
\* timeout is one of the exceptions of the call), classify returns the
\* result of the rules engine for the same content, marked source = "rules".
C14_FailureGivesRulesResultMarked ==
    (mode = "classify" /\ pc = "returned"
        /\ AiConfigured(cfg) /\ SvcFails(svc.classify)) =>
        /\ ~cls.exc
        /\ cls = ClassifyWithRules(req.content)
        /\ "source" \in DOMAIN cls
        /\ cls.source = "rules"

\* The service raised, the rules engine answered, and the dict returned has
\* the keys type, confidence and reasoning only
C14_RulesResultWithoutSource ==
    /\ mode = "classify" /\ pc = "returned"
    /\ AiConfigured(cfg) /\ svc.classify = SvcException
    /\ req.content = "chest pain and can't breathe"
    /\ cls = ClassifyWithRules(req.content)
    /\ DOMAIN cls = {"exc", "type", "confidence", "reasoning"}
    /\ cls.reasoning = "Rule-based classification"

\* C15: when the directory answers the query with no facility, find_nearby
\* of the OSM finder and of the Google Places finder returns a list that is
\* not empty, made by the synthetic generator, with every facility at a
\* distance of at most the radius.
C15_NoMatchGivesSyntheticInRadius ==
    (mode = "finder" /\ pc = "returned"
        /\ req.finder \in {"osm", "google"}
        /\ svc.directory.kind = "ok"
        /\ Len(svc.directory.elements) = 0) =>
        /\ ~hosp.v.exc
        /\ Len(hosp.v.list) > 0
        /\ \A i \in 1..Len(hosp.v.list) :
               /\ Contains("fallback_", hosp.v.list[i].id)
               /\ hosp.v.list[i].distance <= req.radius * 1000

\* Google Places answered status OK with an empty result list, and
\* find_nearby returned the empty list without running the generator
C15_EmptyAnswerReturnedEmpty ==
    /\ mode = "finder" /\ pc = "returned"
    /\ req.finder = "google"
    /\ svc.directory = [kind |-> "ok", status |-> "OK", elements |-> <<>>]
    /\ svc.draws = <<>>
    /\ ~hosp.v.exc
    /\ hosp.v.list = <<>>

\* C16: a triage request whose coordinates are out of range, or whose
\* content is empty, is rejected: its outcome is the rejection alone, and no
\* classification, severity or instruction was computed for it.
C16_InvalidInputRejected ==
    (mode = "triage" /\ pc = "done"
        /\ (~RequestValid(req) \/ req.content = "")) =>
        /\ resp.v = [status |-> 422]
        /\ cls = Unset /\ sev = Unset /\ instr = Unset

\* /analyze answered a request with empty content by a triage result
C16_EmptyContentTriaged ==
    /\ mode = "triage" /\ pc = "done"
    /\ req.endpoint = "analyze"
    /\ req.content = ""
    /\ resp.v.status = 200
    /\ resp.v.detection.emergencyType = "unknown"
    /\ resp.v.detection.severity = "low"
    /\ Len(resp.v.instructions) > 0

\* C17: for valid coordinates A and B, _calculate_distance(A, B) equals
\* _calculate_distance(B, A), and _calculate_distance(A, A) is 0.
C17_DistanceSymmetric ==
    (mode = "distance" /\ pc = "returned") =>
        /\ resp.v = CalculateDistance(req.b.latitude, req.b.longitude,
                                      req.a.latitude, req.a.longitude)
        /\ req.a = req.b => resp.v = 0

\* The distance from New York to London was computed: about 5570 km
C17_NewYorkToLondon ==
    /\ mode = "distance" /\ pc = "returned"
    /\ req.a = [latitude |-> 40713, longitude |-> -74006]
    /\ req.b = [latitude |-> 51507, longitude |-> -128]
    /\ resp.v > 5500000 /\ resp.v < 5650000

\* C18: no list returned by find_nearby holds two facilities with the same
\* id, whatever records the directory answered and whatever the synthetic
\* generator drew.
C18_IdsDistinct ==
    (mode = "finder" /\ pc = "returned" /\ ~hosp.v.exc) =>
        \A i, j \in 1..Len(hosp.v.list) :
            hosp.v.list[i].id = hosp.v.list[j].id => i = j

\* Overpass answered a node and a way that both carry the id 1, at
\* different coordinates, and both hospitals were returned as "osm_1"
C18_NodeAndWayShareId ==
    /\ mode = "finder" /\ pc = "returned"
    /\ req.finder = "osm"
    /\ svc.directory.kind = "ok"
    /\ Len(svc.directory.elements) = 2
    /\ svc.directory.elements[1].type = "node"
    /\ svc.directory.elements[2].type = "way"
    /\ svc.directory.elements[1].id = svc.directory.elements[2].id
    /\ ~hosp.v.exc
    /\ Len(hosp.v.list) = 2
    /\ hosp.v.list[1].id = "osm_1" /\ hosp.v.list[2].id = "osm_1"
    /\ hosp.v.list[1].latitude # hosp.v.list[2].latitude

\* C19: classify tries the trained model, then the intelligence service,
\* then the rules engine: with a trained model loaded the trained model is
\* the only stage that runs, and a later stage runs only when the one
\* before it was unavailable or raised.
C19_StagesInPriorityOrder ==
    (mode = "classify" /\ pc = "returned") =>
        /\ CustomAvailable(req.models_on_disk) => trace = <<"classify:model">>
        /\ InList("classify:ai", trace) =>
               ~CustomAvailable(req.models_on_disk) /\ trace[1] = "classify:ai"
        /\ InList("classify:rules", trace) =>
               /\ ~CustomAvailable(req.models_on_disk)
               /\ ~AiConfigured(cfg) \/ AiClassifyRaises(svc.classify)

\* Both model files were on disk, and classify returned the answer of the
\* intelligence service
C19_TrainedModelIgnored ==
    /\ mode = "classify" /\ pc = "returned"
    /\ CustomAvailable(req.models_on_disk)
    /\ svc.classify = ClassifyObject(JStr("cardiac"), JNum(9500))
    /\ trace = <<"classify:ai">>
    /\ cls.type = "cardiac" /\ cls.confidence = 9500

\* C20: within one call of find_nearby the facility directory is called at
\* most once and the synthetic fallback of the finder runs at most once.
C20_NoStageRepeated ==
    (mode = "finder" /\ pc = "returned") =>
        /\ Len(SelectSeq(trace, LAMBDA s : s = "find:directory")) <= 1
        /\ Len(SelectSeq(trace, LAMBDA s : s = "find:synthetic")) <= 1

\* The directory of the OSM finder answered once with no hospital, and
\* _find_with_fallback ran in the try block of _find_with_overpass, in its
\* except clause and in the except clause of find_nearby
C20_FallbackRanThreeTimes ==
    /\ mode = "finder" /\ pc = "returned"
    /\ req.finder = "osm"
    /\ ValidLocation(req.location.latitude, req.location.longitude)
    /\ svc.directory.kind = "ok"
    /\ trace = <<"find:directory", "find:synthetic", "find:synthetic",
                 "find:synthetic">>

\* C23: the rules engine counts, per category, the keywords that occur in
\* the lower-cased content; it returns the category with the highest count,
\* the one declared first winning a tie, with confidence
\* min(0.9, 0.5 + 0.1 x count); when no keyword occurs it returns "unknown"
\* with confidence 0.3.
C23_RulesPickFirstHighestCount ==
    (mode = "classify" /\ pc = "returned" /\ InList("classify:rules", trace)) =>
        LET text == Lower(req.content)
            n(i) == Cardinality({k \in 1..Len(Keywords(KeywordOrder[i])) :
                                    Contains(Keywords(KeywordOrder[i])[k], text)})
            Cats == 1..Len(KeywordOrder)
        IN  /\ ~cls.exc
            /\ (\A i \in Cats : n(i) = 0) =>
                   cls.type = "unknown" /\ cls.confidence = 3000
            /\ \A w \in Cats :
                   (/\ n(w) > 0
                    /\ \A j \in Cats : n(j) <= n(w)
                    /\ \A j \in Cats : j < w => n(j) < n(w)) =>
                       /\ cls.type = KeywordOrder[w]
                       /\ cls.confidence = Min(9000, 5000 + 1000 * n(w))

\* Upper-case content with one keyword of bleeding and one of fracture:
\* the tie went to bleeding, declared first, with confidence 0.6
C23_TieWentToFirstDeclared ==
    /\ mode = "classify" /\ pc = "returned"
    /\ req.content = "Severe BLEEDING and a broken arm"
    /\ trace = <<"classify:rules">>
    /\ cls.type = "bleeding"
    /\ cls.confidence = 6000

\* C24: the rules scorer picks the tier by strict precedence: critical with
\* min(1.0, 0.8 + 0.05 x criticalCount) when the category is cardiac or
\* respiratory or a critical keyword occurs; otherwise high with
\* min(0.79, 0.6 + 0.05 x highCount) when the category is bleeding, fracture
\* or burn or a high keyword occurs; otherwise moderate with
\* min(0.59, 0.4 + 0.05 x moderateCount) when a moderate keyword occurs;
\* otherwise low with 0.3.  The score returned is that score times the
\* confidence passed in.
C24_TierByStrictPrecedence ==
    (mode = "score" /\ pc = "returned" /\ trace = <<"score:rules">>) =>
        LET text == Lower(req.content)
            n(kws) == Cardinality({k \in 1..Len(kws) : Contains(kws[k], text)})
            crit == n(critical_keywords) > 0
                    \/ req.emergency_type \in {"cardiac", "respiratory"}
            high == n(high_keywords) > 0
                    \/ req.emergency_type \in {"bleeding", "fracture", "burn"}
            mod == n(moderate_keywords) > 0
            is(level, pre) ==
                /\ sev.severity = level
                /\ sev.score = (pre * req.classification_confidence) \div Unit
        IN  /\ crit => is("critical", Min(10000, 8000 + 500 * n(critical_keywords)))
            /\ (~crit /\ high) => is("high", Min(7900, 6000 + 500 * n(high_keywords)))
            /\ (~crit /\ ~high /\ mod) =>
                   is("moderate", Min(5900, 4000 + 500 * n(moderate_keywords)))
            /\ (~crit /\ ~high /\ ~mod) => is("low", 3000)

\* Five high keywords and no critical one, confidence 1.0: level high with
\* the capped score 0.79
C24_HighTierCapped ==
    /\ mode = "score" /\ pc = "returned" /\ trace = <<"score:rules">>
    /\ req.content = "urgent emergency: severe burn, maybe poison"
    /\ req.emergency_type = "unknown"
    /\ req.classification_confidence = 10000
    /\ sev.severity = "high"
    /\ sev.score = 7900

\* C25: whenever score returns a result of the rules engine, the service
\* being disabled or having failed, the score is the tier's score times the
\* classification_confidence passed to score, and the level is the tier's
\* level, not recomputed from the product.
C25_RulesScoreTimesCallerConfidence ==
    (mode = "score" /\ pc = "returned" /\ InList("score:rules", trace)) =>
        /\ sev.severity = RulesTier(req.emergency_type, req.content).severity
        /\ sev.score = FMulUnit(RulesTier(req.emergency_type, req.content).score,
                                req.classification_confidence)

\* The service raised; score was called with confidence 1.0 for a cardiac
\* emergency with no keyword, and the tier score 0.8 came back as 0.56
C25_FallbackUsedSevenTenths ==
    /\ mode = "score" /\ pc = "returned"
    /\ trace = <<"score:ai", "score:rules">>
    /\ svc.score = SvcException
    /\ req.emergency_type = "cardiac"
    /\ req.content = "hello there"
    /\ req.classification_confidence = 10000
    /\ sev.severity = "critical"
    /\ sev.score = 5600

\* C26: in every triage response estimatedResponseTime is 15 when
\* shouldCallEmergency is true and absent when it is false.
C26_EstimateFollowsCallDecision ==
    (mode = "triage" /\ pc = "done" /\ resp.some /\ resp.v.status = 200) =>
        /\ resp.v.shouldCallEmergency = should_call
        /\ resp.v.shouldCallEmergency => resp.v.estimatedResponseTime = Some(15)
        /\ ~resp.v.shouldCallEmergency => resp.v.estimatedResponseTime = None

\* A response whose level is high and whose score reached the threshold:
\* shouldCallEmergency is true and the estimate is 15
C26_EstimateGivenBelowCritical ==
    /\ mode = "triage" /\ pc = "done" /\ resp.some /\ resp.v.status = 200
    /\ resp.v.detection.severity = "high"
    /\ sev.score >= cfg.CRITICAL_SEVERITY_THRESHOLD
    /\ resp.v.shouldCallEmergency
    /\ resp.v.estimatedResponseTime = Some(15)

\* C27: in every triage response nearestHospital is absent when the request
\* has no location, and the finder is then not invoked; when a location is
\* present it is the first element of the list find_nearby returned for that
\* location, an element of minimum distance, and it is absent only when the
\* list is empty.
C27_NearestIsFirstOfList ==
    (mode = "triage" /\ pc = "done" /\ resp.some /\ resp.v.status = 200) =>
        /\ ~req.location.some =>
               /\ resp.v.nearestHospital = None
               /\ hosp = None
               /\ svc.draws = <<>>
               /\ ~InList("find:synthetic", trace)
        /\ req.location.some =>
               /\ hosp.some
               /\ Len(SelectSeq(trace, LAMBDA s : s = "find:synthetic")) = 1
               /\ Len(hosp.v) = 0 => resp.v.nearestHospital = None
               /\ Len(hosp.v) > 0 =>
                      /\ resp.v.nearestHospital = Some(hosp.v[1])
                      /\ \A i \in 1..Len(hosp.v) :
                             /\ hosp.v[1].distance <= hosp.v[i].distance
                             /\ Abs(hosp.v[i].latitude - req.location.v.latitude)
                                    <= MockMaxOffset
                             /\ Abs(hosp.v[i].longitude - req.location.v.longitude)
                                    <= MockMaxOffset

\* The generator placed its first two hospitals far away and the next three
\* at the request's coordinate: the response names hosp_003, at distance 0
C27_NearestGeneratedThird ==
    /\ mode = "triage" /\ pc = "done" /\ resp.some /\ resp.v.status = 200
    /\ req.location.some
    /\ svc.draws[1].offs[1] = <<MockMaxOffset, MockMaxOffset>>
    /\ svc.draws[1].offs[3] = <<0, 0>>
    /\ Len(hosp.v) = 5
    /\ resp.v.nearestHospital.some
    /\ resp.v.nearestHospital.v.id = "hosp_003"
    /\ resp.v.nearestHospital.v.distance = 0
    /\ hosp.v[5].distance > 0

\* C29: when the classification and the severity both come from the rules
\* engines and the threshold is the default 0.8, a level below critical has
\* a score below 0.8, so the call decision is true exactly when the level
\* is critical.
C29_RulesCallIffCritical ==
    (/\ mode = "triage" /\ pc \in {"instructions", "hospital", "respond", "done"}
     /\ RequestValid(req)
     /\ InList("classify:rules", trace) /\ InList("score:rules", trace)
     /\ cfg.CRITICAL_SEVERITY_THRESHOLD = 8000) =>
        /\ sev.severity # "critical" => sev.score < 8000
        /\ should_call <=> sev.severity = "critical"

\* Both rules engines ran: cardiac with confidence 0.6, level critical with
\* score 0.9 x 0.6 = 0.54, below the threshold, and the decision is to call
C29_CriticalBelowThreshold ==
    /\ mode = "triage" /\ pc = "done"
    /\ InList("classify:rules", trace) /\ InList("score:rules", trace)
    /\ ~InList("classify:ai", trace)
    /\ cfg.CRITICAL_SEVERITY_THRESHOLD = 8000
    /\ req.content = "chest pain and can't breathe"
    /\ cls.confidence = 6000
    /\ sev.severity = "critical"
    /\ sev.score = 5400
    /\ should_call

\* C30: on the template path generate_instructions returns, for every
\* category of EmergencyType and every severity, the generic sequence Assess
\* the Situation, Call for Help, Provide Basic Care, Monitor the Person; a
\* template of its own is returned only for the keys cuts-wounds, burns,
\* choking, cpr, sprains, nosebleed, allergic-reaction and fainting; the
\* severity never changes the result.
C30_CatalogGetsGenericSequence ==
    (mode = "generate" /\ pc = "returned" /\ InList("generate:templates", trace)) =>
        LET titles == [i \in 1..Len(instr.list) |-> instr.list[i].title.s]
            generic == <<"Assess the Situation", "Call for Help",
                         "Provide Basic Care", "Monitor the Person">>
        IN  /\ ~instr.exc
            /\ req.emergency_type \in
                   {"medical", "trauma", "cardiac", "respiratory", "burn",
                    "poisoning", "fracture", "bleeding", "unknown"} =>
                       titles = generic
            /\ titles # generic =>
                   req.emergency_type \in
                       {"cuts-wounds", "burns", "choking", "cpr", "sprains",
                        "nosebleed", "allergic-reaction", "fainting"}
            /\ \A s \in SeverityLevel :
                   instr = GenerateWithTemplates(req.emergency_type, s)

\* A critical burn on the template path: the four generic steps came back
C30_CriticalBurnGetsGeneric ==
    /\ mode = "generate" /\ pc = "returned"
    /\ trace = <<"generate:templates">>
    /\ req.emergency_type = "burn"
    /\ req.severity = "critical"
    /\ Len(instr.list) = 4
    /\ instr.list[1].title = JStr("Assess the Situation")
    /\ instr.list[4].title = JStr("Monitor the Person")

\* C28: the trained-model adapter is available only if the category model
\* and the severity model are both loaded; after any loads in which either
\* stayed missing it is unavailable, and classify called while unavailable
\* raises ValueError and never returns a classification.
C28_AvailableOnlyWithBothModels ==
    (mode = "custom" /\ pc # "new") =>
        LET loaded == \E i \in 1..Len(svc.draws) :
                         svc.draws[i].cat = "ok" /\ svc.draws[i].sev = "ok"
        IN  /\ IsAvailable(cfg) <=> loaded
            /\ IsAvailable(cfg) => cfg.category_model /\ cfg.severity_model
            /\ (pc = "returned" /\ ~loaded) =>
                   cls.exc /\ cls.error = "ValueError"
            /\ (pc = "returned" /\ ~cls.exc) =>
                   loaded /\ cls.source = "custom_model"

\* The severity file was corrupt at both loads: the category model is
\* loaded, the severity model is not, and classify raised ValueError
C28_HalfLoadedRaisesValueError ==
    /\ mode = "custom" /\ pc = "returned"
    /\ Len(svc.draws) = 2
    /\ \A i \in 1..2 : svc.draws[i].cat = "ok" /\ svc.draws[i].sev = "corrupt"
    /\ cfg.category_model /\ ~cfg.severity_model
    /\ cls.exc /\ cls.error = "ValueError"

\* C22: the synthetic generator is seeded by the request coordinate: two
\* calls with the same coordinate and radius return the same facilities,
\* the same count, ids, positions and distances.
C22_SameCoordinateSameFacilities ==
    (mode = "repeat" /\ pc = "returned") => hosp.v.list = resp.v.list

\* Two calls for New York with radius 10: the first returned five hospitals
\* at the coordinate itself, the second eight, none nearer than 60 km
C22_SecondCallDiffers ==
    /\ mode = "repeat" /\ pc = "returned"
    /\ req = [location |-> [latitude |-> 40713, longitude |-> -74006],
              radius |-> 10]
    /\ Len(hosp.v.list) = 5
    /\ hosp.v.list[1].distance = 0
    /\ Len(resp.v.list) = 8
    /\ resp.v.list[1].distance > 60000

\* C21: concurrent triage requests are independent: a request whose
\* external call is blocked, failed or cancelled never prevents the other
\* from completing, so while one request waits in a call of the
\* intelligence service the other, if not yet answered, can take its next
\* step.
C21_WaitingRequestHoldsNobodyUp ==
    mode = "concurrent" =>
        \A r, s \in Requests :
            (/\ r # s
             /\ AiConfigured(cfg)
             /\ pc[r] \in {"classify", "score", "instructions"}
             /\ pc[s] # "done") =>
                ENABLED (HandlerStarts(s) \/ HandlerRuns(s))

\* Request 1 waits in the classification call of the intelligence service;
\* request 2 was received and its handler cannot start
C21_SecondWaitsBehindFirst ==
    /\ mode = "concurrent"
    /\ AiConfigured(cfg)
    /\ pc[1] = "classify"
    /\ pc[2] = "received"
    /\ ~ENABLED HandlerStarts(2)

====
